---------------------------- MODULE Spec2Model ----------------------------
(***************************************************************************)
(* A model of the command-generation pipeline of shell-agent:              *)
(*   internal/ai/ollama.go  - transport client and response interpreter    *)
(*   internal/ai/client.go  - GenerateCommand and the safety classifier    *)
(*   internal/ai/models.go  - model registry and inventory reconciler      *)
(*                                                                         *)
(* Text is a sequence of one-character strings, so that the substring,     *)
(* index, trim and split operations of the Go code are computed and not    *)
(* assumed.  The alphabet of the texts generated below has no backslash    *)
(* and no non-ASCII character other than the warning sign, which is one    *)
(* element.  A confidence is an integer number of hundredths (0.8 is 80).  *)
(***************************************************************************)
EXTENDS Integers, Sequences, FiniteSets, TLC

VARIABLES
    markers,            \* model names whose <modelsPath>/<name>/metadata.json exists
    remote,             \* names of the models the Ollama service holds
    service,            \* "up" | "down" (probe fails) | "garbled" (listing fails)
    defaultModel,       \* configuration: ai.default_model
    dangerousPatterns,  \* configuration: safety.dangerous_commands
    requireConfirm,     \* configuration: safety.require_confirm
    timeout,            \* configuration: ai.timeout, in seconds
    raw,                \* the reply text the remote service returns
    response,           \* the CommandResponse being classified
    mu,                 \* feedback: the goroutine holding each Manager's mutex
    file,               \* feedback: the contents of ~/.shell-agent/feedback.json
    callers,            \* feedback: the call each goroutine is in, and where
    last                \* the last completed operation, with its inputs and result

vars ==
    <<markers, remote, service, defaultModel, dangerousPatterns, requireConfirm,
      timeout, raw, response, mu, file, callers, last>>

Nil ==
    [nil |-> TRUE]

\* viper.SetDefault("ai.timeout", 120)
DefaultTimeout ==
    120

NoOp ==
    [op |-> "none"]

-----------------------------------------------------------------------------
(* Bounds of the model.                                                    *)

MaxBraces ==
    4

MaxMembers ==
    2

MaxPatterns ==
    2

MaxCallers ==
    2

MaxLines ==
    3

MaxRecords ==
    3

MaxRemote ==
    2

-----------------------------------------------------------------------------
(* The feedback log (package feedback): Manager, SaveFeedback, LoadFeedback. *)

\* the goroutines that call a Manager
Procs ==
    1..MaxCallers

\* the Manager values in use; each NewManager() gives one, with a mutex of its
\* own and the same filePath
Managers ==
    {"m1", "m2"}

\* sync.Mutex: the set of goroutines holding it, empty or one goroutine
Unlocked ==
    [m \in Managers |-> {}]

\* feedback.json: missing, of zero bytes, not decodable, or a list of entries
NoFile ==
    [kind |-> "missing", entries |-> <<>>]

EmptyFile ==
    [kind |-> "empty", entries |-> <<>>]

CorruptFile ==
    [kind |-> "corrupt", entries |-> <<>>]

ListFile(entries) ==
    [kind |-> "list", entries |-> entries]

\* a goroutine that is in no call of a Manager
Idle ==
    [op |-> "idle", m |-> "", entry |-> "", pc |-> "idle", loaded |-> Nil]

NoCallers ==
    [p \in Procs |-> Idle]

\* a goroutine inside SaveFeedback(f) or LoadFeedback() of Manager m, about to
\* run the statement pc; loaded is what LoadFeedback has read
Frame(op, m, entry, pc, loaded) ==
    [op |-> op, m |-> m, entry |-> entry, pc |-> pc, loaded |-> loaded]

\* os.ReadFile and json.Unmarshal of LoadFeedback: [err, list]
LoadResult(f) ==
    IF f.kind = "missing" THEN [err |-> "failed to read feedback file", list |-> <<>>]
    ELSE IF f.kind = "corrupt"
    THEN [err |-> "failed to unmarshal feedback data", list |-> <<>>]
    ELSE [err |-> "nil", list |-> f.entries]

\* the file SaveFeedback writes: the list loaded, or a new list when the load
\* failed, with the entry appended
SavedFile(loaded, entry) ==
    ListFile(Append(IF loaded.err # "nil" THEN <<>> ELSE loaded.list, entry))

\* a goroutine calls m.SaveFeedback(entry)
CallSaveFeedback(p) ==
    /\ callers[p] = Idle
    /\ \E m \in Managers, entry \in {"e1", "e2"} :
        callers' = [callers EXCEPT ![p] = Frame("SaveFeedback", m, entry, "SaveLock", Nil)]
    /\ UNCHANGED <<markers, remote, service, defaultModel, dangerousPatterns,
                   requireConfirm, timeout, raw, response, mu, file, last>>

\* a goroutine calls m.LoadFeedback()
CallLoadFeedback(p) ==
    /\ callers[p] = Idle
    /\ \E m \in Managers :
        callers' = [callers EXCEPT ![p] = Frame("LoadFeedback", m, "", "LoadLock", Nil)]
    /\ UNCHANGED <<markers, remote, service, defaultModel, dangerousPatterns,
                   requireConfirm, timeout, raw, response, mu, file, last>>

\* SaveFeedback: m.mu.Lock(), then the call of m.LoadFeedback()
SaveLock(p) ==
    /\ callers[p] # Idle
    /\ callers[p].pc = "SaveLock"
    /\ mu[callers[p].m] = {}
    /\ mu' = [mu EXCEPT ![callers[p].m] = {p}]
    /\ callers' = [callers EXCEPT ![p].pc = "LoadLock"]
    /\ UNCHANGED <<markers, remote, service, defaultModel, dangerousPatterns,
                   requireConfirm, timeout, raw, response, file, last>>

\* LoadFeedback: m.mu.Lock(); the mutex is not reentrant
LoadLock(p) ==
    /\ callers[p] # Idle
    /\ callers[p].pc = "LoadLock"
    /\ mu[callers[p].m] = {}
    /\ mu' = [mu EXCEPT ![callers[p].m] = {p}]
    /\ callers' = [callers EXCEPT ![p].pc = "LoadRead"]
    /\ UNCHANGED <<markers, remote, service, defaultModel, dangerousPatterns,
                   requireConfirm, timeout, raw, response, file, last>>

\* LoadFeedback: os.ReadFile and json.Unmarshal
LoadRead(p) ==
    /\ callers[p] # Idle
    /\ callers[p].pc = "LoadRead"
    /\ callers' = [callers EXCEPT ![p].pc = "LoadReturn", ![p].loaded = LoadResult(file)]
    /\ UNCHANGED <<markers, remote, service, defaultModel, dangerousPatterns,
                   requireConfirm, timeout, raw, response, mu, file, last>>

\* LoadFeedback: the deferred m.mu.Unlock() and the return.  Returning into
\* SaveFeedback, the statements that follow its call of LoadFeedback run: the
\* entry is appended and the file written.
LoadReturn(p) ==
    /\ callers[p] # Idle
    /\ callers[p].pc = "LoadReturn"
    /\ mu' = [mu EXCEPT ![callers[p].m] = {}]
    /\ file' = IF callers[p].op = "SaveFeedback"
               THEN SavedFile(callers[p].loaded, callers[p].entry)
               ELSE file
    /\ callers' = [callers EXCEPT ![p].pc = "done"]
    /\ UNCHANGED <<markers, remote, service, defaultModel, dangerousPatterns,
                   requireConfirm, timeout, raw, response, last>>

\* the caller takes the result
FeedbackReturn(p) ==
    /\ callers[p] # Idle
    /\ callers[p].pc = "done"
    /\ callers' = [callers EXCEPT ![p] = Idle]
    /\ UNCHANGED <<markers, remote, service, defaultModel, dangerousPatterns,
                   requireConfirm, timeout, raw, response, mu, file, last>>

\* the steps a goroutine takes inside a call, which the scheduler lets it take
FeedbackStep(p) ==
    SaveLock(p) \/ LoadLock(p) \/ LoadRead(p) \/ LoadReturn(p)

FilePool ==
    {NoFile, EmptyFile, CorruptFile, ListFile(<<"e0">>)}

InitFeedback ==
    /\ markers = {}
    /\ remote = {}
    /\ service = "up"
    /\ defaultModel = <<>>
    /\ dangerousPatterns = <<>>
    /\ requireConfirm = TRUE
    /\ timeout = DefaultTimeout
    /\ raw = <<>>
    /\ response = [nil |-> TRUE]
    /\ mu = Unlocked
    /\ file \in FilePool
    /\ callers = NoCallers
    /\ last = NoOp

NextFeedback ==
    \E p \in Procs :
        \/ CallSaveFeedback(p)
        \/ CallLoadFeedback(p)
        \/ SaveLock(p)
        \/ LoadLock(p)
        \/ LoadRead(p)
        \/ LoadReturn(p)
        \/ FeedbackReturn(p)

SpecFeedback ==
    /\ InitFeedback
    /\ [][NextFeedback]_vars
    /\ \A p \in Procs : WF_vars(FeedbackStep(p))

-----------------------------------------------------------------------------
(* Go's strings package, on sequences of characters.                       *)

RECURSIVE Concat(_)
Concat(seqs) ==
    IF seqs = <<>> THEN <<>> ELSE Head(seqs) \o Concat(Tail(seqs))

RECURSIVE JoinWith(_, _)
JoinWith(seqs, sep) ==
    IF seqs = <<>> THEN <<>>
    ELSE IF Len(seqs) = 1 THEN seqs[1]
    ELSE seqs[1] \o sep \o JoinWith(Tail(seqs), sep)

Min(a, b) ==
    IF a < b THEN a ELSE b

\* strings.Contains(s, sub)
Contains(s, sub) ==
    \E i \in 0..(Len(s) - Len(sub)) : SubSeq(s, i + 1, i + Len(sub)) = sub

\* strings.HasPrefix(s, p)
HasPrefix(s, p) ==
    Len(s) >= Len(p) /\ SubSeq(s, 1, Len(p)) = p

\* strings.Index(s, c) for a one-character c: 0-based, -1 when absent
Index(s, c) ==
    IF \E i \in 1..Len(s) : s[i] = c
    THEN (CHOOSE i \in 1..Len(s) : s[i] = c /\ \A j \in 1..(i - 1) : s[j] # c) - 1
    ELSE -1

\* strings.LastIndex(s, c) for a one-character c: 0-based, -1 when absent
LastIndex(s, c) ==
    IF \E i \in 1..Len(s) : s[i] = c
    THEN (CHOOSE i \in 1..Len(s) : s[i] = c /\ \A j \in (i + 1)..Len(s) : s[j] # c) - 1
    ELSE -1

\* The elements that stand for the backquote character and for the warning sign.
Backtick ==
    "<backquote>"

WarnSign ==
    "<warning-sign>"

IsSpace(c) ==
    c \in {" ", "\t", "\n", "\r"}

\* strings.TrimSpace(s)
TrimSpace(s) ==
    IF \A i \in 1..Len(s) : IsSpace(s[i]) THEN <<>>
    ELSE LET first == CHOOSE i \in 1..Len(s) :
                          ~IsSpace(s[i]) /\ \A j \in 1..(i - 1) : IsSpace(s[j])
             lst   == CHOOSE i \in 1..Len(s) :
                          ~IsSpace(s[i]) /\ \A j \in (i + 1)..Len(s) : IsSpace(s[j])
         IN  SubSeq(s, first, lst)

UpperCase ==
    <<"A","B","C","D","E","F","G","H","I","J","K","L","M","N","O","P","Q","R","S","T","U",
      "V","W","X","Y","Z">>

LowerCase ==
    <<"a","b","c","d","e","f","g","h","i","j","k","l","m","n","o","p","q","r","s","t","u",
      "v","w","x","y","z">>

LowerChar(c) ==
    IF \E k \in 1..26 : UpperCase[k] = c
    THEN LowerCase[CHOOSE k \in 1..26 : UpperCase[k] = c]
    ELSE c

\* strings.ToLower(s)
ToLower(s) ==
    [i \in 1..Len(s) |-> LowerChar(s[i])]

\* strings.Split(s, sep) for a one-character sep
RECURSIVE Split(_, _)
Split(s, sep) ==
    LET idx == Index(s, sep)
    IN  IF idx = -1 THEN <<s>>
        ELSE <<SubSeq(s, 1, idx)>> \o Split(SubSeq(s, idx + 2, Len(s)), sep)

-----------------------------------------------------------------------------
(* encoding/json: json.Unmarshal of a text into map[string]interface{}.    *)
(* A decoded value is a record tagged with its Go dynamic type; a number   *)
(* (float64) is kept in hundredths, which is exact for the numbers with at *)
(* most two fraction digits and no exponent that the texts below contain.  *)

JString(s) ==
    [t |-> "string", s |-> s]

JNumber(n) ==
    [t |-> "float64", n |-> n]

JLiteral(x) ==
    [t |-> "literal", x |-> x]

JArray(a) ==
    [t |-> "array", a |-> a]

JObject(m) ==
    [t |-> "object", m |-> m]

JFail ==
    [ok |-> FALSE]

JOk(v, i) ==
    [ok |-> TRUE, v |-> v, i |-> i]

Digits ==
    <<"0","1","2","3","4","5","6","7","8","9">>

IsDigit(c) ==
    \E k \in 1..10 : Digits[k] = c

DigitVal(c) ==
    (CHOOSE k \in 1..10 : Digits[k] = c) - 1

\* the first position at or after i that holds no whitespace
RECURSIVE SkipWS(_, _)
SkipWS(s, i) ==
    IF i <= Len(s) /\ IsSpace(s[i]) THEN SkipWS(s, i + 1) ELSE i

\* the first position at or after i that holds no digit
RECURSIVE DigitsEnd(_, _)
DigitsEnd(s, i) ==
    IF i <= Len(s) /\ IsDigit(s[i]) THEN DigitsEnd(s, i + 1) ELSE i

\* the decimal value of the digits s[a..b-1]
RECURSIVE DigitsValue(_, _, _)
DigitsValue(s, a, b) ==
    IF a >= b THEN 0 ELSE DigitsValue(s, a, b - 1) * 10 + DigitVal(s[b - 1])

\* a JSON string starting at the quote s[i]; raw control characters are invalid
ParseString(s, i) ==
    LET closing == {j \in (i + 1)..Len(s) : s[j] = "\""}
    IN  IF closing = {} THEN JFail
        ELSE LET j == CHOOSE k \in closing : \A l \in closing : k <= l
                 body == SubSeq(s, i + 1, j - 1)
             IN  IF \E k \in 1..Len(body) : body[k] \in {"\n", "\t", "\r"}
                 THEN JFail
                 ELSE JOk(JString(body), j + 1)

\* a JSON number starting at s[i]: -? (0 | [1-9][0-9]*) (. [0-9]+)?
ParseNumber(s, i) ==
    LET neg     == s[i] = "-"
        j0      == IF neg THEN i + 1 ELSE i
        intEnd  == IF j0 <= Len(s) /\ s[j0] = "0" THEN j0 + 1 ELSE DigitsEnd(s, j0)
        hasFrac == intEnd <= Len(s) /\ s[intEnd] = "."
        fracEnd == IF hasFrac THEN DigitsEnd(s, intEnd + 1) ELSE intEnd
        fracLen == IF hasFrac THEN fracEnd - (intEnd + 1) ELSE 0
        frac    == IF fracLen = 0 THEN 0
                   ELSE IF fracLen = 1 THEN 10 * DigitVal(s[intEnd + 1])
                   ELSE DigitsValue(s, intEnd + 1, intEnd + 3)
        mag     == 100 * DigitsValue(s, j0, intEnd) + frac
    IN  IF intEnd = j0 \/ (hasFrac /\ fracLen = 0) THEN JFail
        ELSE JOk(JNumber(IF neg THEN 0 - mag ELSE mag), fracEnd)

\* one of the literals null, true, false starting at s[i]
ParseLiteral(s, i) ==
    LET words == {<<"n","u","l","l">>, <<"t","r","u","e">>, <<"f","a","l","s","e">>}
        hit   == {w \in words : i + Len(w) - 1 <= Len(s) /\ SubSeq(s, i, i + Len(w) - 1) = w}
    IN  IF hit = {} THEN JFail
        ELSE LET w == CHOOSE x \in hit : TRUE
             IN  JOk(JLiteral(w), i + Len(w))

RECURSIVE ParseValue(_, _)
RECURSIVE ParseElements(_, _, _)
RECURSIVE ParseMembers(_, _, _)

\* the elements of an array, the first of them starting at or after s[i]
ParseElements(s, i, acc) ==
    LET v == ParseValue(s, SkipWS(s, i))
    IN  IF ~v.ok THEN JFail
        ELSE LET j == SkipWS(s, v.i)
             IN  IF j > Len(s) THEN JFail
                 ELSE IF s[j] = "]" THEN JOk(JArray(Append(acc, v.v)), j + 1)
                 ELSE IF s[j] = "," THEN ParseElements(s, j + 1, Append(acc, v.v))
                 ELSE JFail

\* the key/value pairs of an object, the first key starting at or after s[i]
ParseMembers(s, i, acc) ==
    LET k0 == SkipWS(s, i)
    IN  IF k0 > Len(s) \/ s[k0] # "\"" THEN JFail
        ELSE LET key == ParseString(s, k0)
             IN  IF ~key.ok THEN JFail
                 ELSE LET c == SkipWS(s, key.i)
                      IN  IF c > Len(s) \/ s[c] # ":" THEN JFail
                          ELSE LET v == ParseValue(s, SkipWS(s, c + 1))
                               IN  IF ~v.ok THEN JFail
                                   ELSE LET j    == SkipWS(s, v.i)
                                            acc2 == Append(acc, <<key.v.s, v.v>>)
                                        IN  IF j > Len(s) THEN JFail
                                            ELSE IF s[j] = "}"
                                                 THEN JOk(JObject(acc2), j + 1)
                                            ELSE IF s[j] = ","
                                                 THEN ParseMembers(s, j + 1, acc2)
                                            ELSE JFail

\* the JSON value starting at s[i]
ParseValue(s, i) ==
    IF i > Len(s) THEN JFail
    ELSE IF s[i] = "\"" THEN ParseString(s, i)
    ELSE IF s[i] = "{"
         THEN LET j == SkipWS(s, i + 1)
              IN  IF j <= Len(s) /\ s[j] = "}" THEN JOk(JObject(<<>>), j + 1)
                  ELSE ParseMembers(s, i + 1, <<>>)
    ELSE IF s[i] = "["
         THEN LET j == SkipWS(s, i + 1)
              IN  IF j <= Len(s) /\ s[j] = "]" THEN JOk(JArray(<<>>), j + 1)
                  ELSE ParseElements(s, i + 1, <<>>)
    ELSE IF s[i] = "-" \/ IsDigit(s[i]) THEN ParseNumber(s, i)
    ELSE ParseLiteral(s, i)

\* json.Unmarshal([]byte(s), &result) with result a map[string]interface{}:
\* [err, m]; the text must be one JSON object, with whitespace around it at most
Unmarshal(s) ==
    LET v == ParseValue(s, SkipWS(s, 1))
    IN  IF v.ok /\ v.v.t = "object" /\ SkipWS(s, v.i) = Len(s) + 1
        THEN [err |-> FALSE, m |-> v.v.m]
        ELSE [err |-> TRUE, m |-> <<>>]

\* result[key] of the decoded map: the last pair with that key wins
MapHas(m, key) ==
    \E k \in 1..Len(m) : m[k][1] = key

MapGet(m, key) ==
    m[CHOOSE k \in 1..Len(m) : m[k][1] = key /\ \A l \in (k + 1)..Len(m) : m[l][1] # key][2]

\* v, ok := result[key].(string)
IsString(m, key) ==
    MapHas(m, key) /\ MapGet(m, key).t = "string"

\* v, ok := result[key].(float64)
IsFloat(m, key) ==
    MapHas(m, key) /\ MapGet(m, key).t = "float64"

\* v, ok := result[key].([]interface{})
IsArray(m, key) ==
    MapHas(m, key) /\ MapGet(m, key).t = "array"

\* the string elements of an []interface{}, in order
RECURSIVE StringElements(_)
StringElements(a) ==
    IF a = <<>> THEN <<>>
    ELSE (IF Head(a).t = "string" THEN <<Head(a).s>> ELSE <<>>) \o StringElements(Tail(a))

-----------------------------------------------------------------------------
(* The response interpreter (ollama.go).                                   *)

CommandResponse(command, explanation, warning, confidence, alternatives) ==
    [Command |-> command, Explanation |-> explanation, Warning |-> warning,
     Confidence |-> confidence, Alternatives |-> alternatives]

FallbackCommand ==
    <<"e","c","h","o"," ","'","C","o","u","l","d"," ","n","o","t"," ","p","a","r","s","e"," ",
      "c","o","m","m","a","n","d"," ","f","r","o","m"," ","A","I"," ","r","e","s","p","o",
      "n","s","e","'">>

FallbackExplanation ==
    <<"A","I"," ","r","e","s","p","o","n","s","e"," ","w","a","s"," ","n","o","t"," ","i","n",
      " ","e","x","p","e","c","t","e","d"," ","f","o","r","m","a","t",","," ","e","x","t",
      "r","a","c","t","e","d"," ","c","o","m","m","a","n","d"," ","u","s","i","n","g"," ",
      "f","a","l","l","b","a","c","k"," ","m","e","t","h","o","d">>

FallbackWarning ==
    <<"P","l","e","a","s","e"," ","v","e","r","i","f","y"," ","t","h","i","s"," ","c","o","m",
      "m","a","n","d"," ","b","e","f","o","r","e"," ","e","x","e","c","u","t","i","n","g">>

FallbackConfidence ==
    30

DefaultConfidence ==
    80

\* one iteration of the loop of fallbackParseResponse on a line: [found, command]
FallbackLine(rawLine) ==
    LET line == TrimSpace(rawLine)
        none == [found |-> FALSE, command |-> <<>>]
    IN  IF line = <<>> \/ HasPrefix(line, <<"#">>) THEN none
        ELSE IF Contains(line, <<"$">>)
             THEN LET idx == Index(line, "$")
                  IN  IF idx # -1 /\ idx < Len(line) - 1
                      THEN [found |-> TRUE,
                            command |-> TrimSpace(SubSeq(line, idx + 2, Len(line)))]
                      ELSE none
        ELSE IF Contains(line, <<Backtick>>)
             THEN LET start == Index(line, Backtick)
                      end   == LastIndex(line, Backtick)
                  IN  IF start # -1 /\ end # -1 /\ start # end
                      THEN [found |-> TRUE, command |-> SubSeq(line, start + 2, end)]
                      ELSE none
        ELSE IF Len(line) > 0 /\ ~Contains(line, <<" ">>)
             THEN [found |-> TRUE, command |-> line]
        ELSE none

\* the command the loop of fallbackParseResponse leaves: that of the first line
\* at which it breaks, empty when it breaks at none
RECURSIVE FallbackScan(_)
FallbackScan(lines) ==
    IF lines = <<>> THEN <<>>
    ELSE LET r == FallbackLine(Head(lines))
         IN  IF r.found THEN r.command ELSE FallbackScan(Tail(lines))

\* a fallback that gives the placeholder no confidence at all
fallbackParseResponseZeroForPlaceholder(text) ==
    LET scanned == FallbackScan(Split(text, "\n"))
    IN  IF scanned = <<>>
        THEN CommandResponse(FallbackCommand, FallbackExplanation, FallbackWarning, 0, <<>>)
        ELSE CommandResponse(scanned, FallbackExplanation, FallbackWarning,
                             FallbackConfidence, <<>>)

fallbackParseResponse(text) ==
    LET scanned == FallbackScan(Split(text, "\n"))
        command == IF scanned = <<>> THEN FallbackCommand ELSE scanned
    IN  CommandResponse(command, FallbackExplanation, FallbackWarning,
                        FallbackConfidence, <<>>)

\* What parseOllamaResponse returns: a response and a nil error, or the run-time
\* panic of a slice expression whose low index exceeds its high index.
\* path records which of the two paths built the response.
Returned(resp, path) ==
    [panic |-> FALSE, resp |-> resp, err |-> Nil, path |-> path]

Panicked ==
    [panic |-> TRUE, resp |-> Nil, err |-> Nil, path |-> "none"]

\* response[startIdx : endIdx+1] is in range
SliceInRange(text, startIdx, endIdx) ==
    startIdx <= endIdx + 1 /\ endIdx + 1 <= Len(text)

\* the fields of the decoded map, as parseOllamaResponse extracts them
\* an extraction that keeps the blanks around the command
ExtractUntrimmed(m) ==
    CommandResponse(
        IF IsString(m, <<"c","o","m","m","a","n","d">>)
            THEN MapGet(m, <<"c","o","m","m","a","n","d">>).s ELSE <<>>,
        IF IsString(m, <<"e","x","p","l","a","n","a","t","i","o","n">>)
            THEN MapGet(m, <<"e","x","p","l","a","n","a","t","i","o","n">>).s ELSE <<>>,
        IF IsString(m, <<"w","a","r","n","i","n","g">>)
            THEN MapGet(m, <<"w","a","r","n","i","n","g">>).s ELSE <<>>,
        IF IsFloat(m, <<"c","o","n","f","i","d","e","n","c","e">>)
            THEN MapGet(m, <<"c","o","n","f","i","d","e","n","c","e">>).n
            ELSE DefaultConfidence,
        IF IsArray(m, <<"a","l","t","e","r","n","a","t","i","v","e","s">>)
            THEN StringElements(MapGet(m, <<"a","l","t","e","r","n","a","t","i","v","e","s">>).a)
            ELSE <<>>)

Extract(m) ==
    CommandResponse(
        IF IsString(m, <<"c","o","m","m","a","n","d">>)
            THEN TrimSpace(MapGet(m, <<"c","o","m","m","a","n","d">>).s) ELSE <<>>,
        IF IsString(m, <<"e","x","p","l","a","n","a","t","i","o","n">>)
            THEN MapGet(m, <<"e","x","p","l","a","n","a","t","i","o","n">>).s ELSE <<>>,
        IF IsString(m, <<"w","a","r","n","i","n","g">>)
            THEN MapGet(m, <<"w","a","r","n","i","n","g">>).s ELSE <<>>,
        IF IsFloat(m, <<"c","o","n","f","i","d","e","n","c","e">>)
            THEN MapGet(m, <<"c","o","n","f","i","d","e","n","c","e">>).n
            ELSE DefaultConfidence,
        IF IsArray(m, <<"a","l","t","e","r","n","a","t","i","v","e","s">>)
            THEN StringElements(MapGet(m, <<"a","l","t","e","r","n","a","t","i","v","e","s">>).a)
            ELSE <<>>)

parseOllamaResponse(reply) ==
    LET text     == TrimSpace(reply)
        startIdx == Index(text, "{")
        endIdx   == LastIndex(text, "}")
    IN  IF startIdx = -1 \/ endIdx = -1
        THEN Returned(fallbackParseResponse(text), "fallback")
        ELSE IF ~SliceInRange(text, startIdx, endIdx) THEN Panicked
        ELSE LET jsonStr == SubSeq(text, startIdx + 1, endIdx + 1)
                 result  == Unmarshal(jsonStr)
             IN  IF result.err THEN Returned(fallbackParseResponse(text), "fallback")
                 ELSE LET cmdResp == Extract(result.m)
                      IN  IF cmdResp.Command = <<>> /\ cmdResp.Warning = <<>>
                          THEN Returned(fallbackParseResponse(text), "fallback")
                          ELSE Returned(cmdResp, "structured")

-----------------------------------------------------------------------------
(* The safety classifier (client.go, SafetyChecker.CheckCommand).          *)

DangerPrefix ==
    <<WarnSign," ","D","A","N","G","E","R",":"," ","T","h","i","s"," ","c","o","m","m","a","n",
      "d"," ","c","o","n","t","a","i","n","s"," ","'">>

DangerSuffix ==
    <<"'"," ","w","h","i","c","h"," ","c","a","n"," ","b","e"," ","d","e","s","t","r","u","c",
      "t","i","v","e">>

SudoWarning ==
    <<WarnSign," ","T","h","i","s"," ","c","o","m","m","a","n","d"," ","r","e","q","u","i","r",
      "e","s"," ","a","d","m","i","n","i","s","t","r","a","t","i","v","e"," ","p","r","i",
      "v","i","l","e","g","e","s">>

RecursiveWarning ==
    <<WarnSign," ","T","h","i","s"," ","c","o","m","m","a","n","d"," ","w","i","l","l"," ","o",
      "p","e","r","a","t","e"," ","r","e","c","u","r","s","i","v","e","l","y"," ","o","n",
      " ","d","i","r","e","c","t","o","r","i","e","s">>

ClampLimit ==
    50

\* fmt.Sprintf("... contains '%s' which can be destructive", pattern)
DangerWarning(pattern) ==
    DangerPrefix \o pattern \o DangerSuffix

\* the if/else that adds a warning to the warning text of a response
AppendWarningNoSeparator(warning, add) ==
    warning \o add

AppendWarning(warning, add) ==
    IF warning # <<>> THEN warning \o <<"\n">> \o add ELSE add

\* the patterns of the list, by index, that the lower-cased command contains
MatchingPatterns(command, patterns) ==
    {k \in 1..Len(patterns) : Contains(command, ToLower(patterns[k]))}

\* the loop over s.dangerousPatterns, which breaks at the first match
DangerStepNoBreak(resp, command, patterns) ==
    LET hits == MatchingPatterns(command, patterns)
        all  == [k \in 1..Len(patterns) |->
                    IF k \in hits THEN <<"\n">> \o DangerWarning(patterns[k]) ELSE <<>>]
        text == Concat(all)
    IN  IF hits = {} THEN resp
        ELSE [resp EXCEPT
                !.Warning = IF resp.Warning # <<>> THEN resp.Warning \o text ELSE Tail(text),
                !.Confidence = IF @ > ClampLimit THEN ClampLimit ELSE @]

DangerStepLastMatch(resp, command, patterns) ==
    LET hits == MatchingPatterns(command, patterns)
    IN  IF hits = {} THEN resp
        ELSE LET k == CHOOSE x \in hits : \A y \in hits : y <= x
             IN  [resp EXCEPT
                     !.Warning = AppendWarning(@, DangerWarning(patterns[k])),
                     !.Confidence = IF @ > ClampLimit THEN ClampLimit ELSE @]

DangerStepClampAlways(resp, command, patterns) ==
    LET hits == MatchingPatterns(command, patterns)
        r    == [resp EXCEPT !.Confidence = IF @ > ClampLimit THEN ClampLimit ELSE @]
    IN  IF hits = {} THEN r
        ELSE LET k == CHOOSE x \in hits : \A y \in hits : x <= y
             IN  [r EXCEPT !.Warning = AppendWarning(@, DangerWarning(patterns[k]))]

DangerStep(resp, command, patterns) ==
    LET hits == MatchingPatterns(command, patterns)
    IN  IF hits = {} THEN resp
        ELSE LET k == CHOOSE x \in hits : \A y \in hits : x <= y
             IN  [resp EXCEPT
                     !.Warning = AppendWarning(@, DangerWarning(patterns[k])),
                     !.Confidence = IF @ > ClampLimit THEN ClampLimit ELSE @]

\* the administrative-privileges check
SudoStep(resp, command) ==
    IF Contains(command, <<"s","u","d","o">>)
       /\ ~Contains(resp.Warning, <<"s","u","d","o">>)
    THEN [resp EXCEPT !.Warning = AppendWarning(@, SudoWarning)]
    ELSE resp

\* the recursive-operation check
RecursiveStep(resp, command) ==
    IF Contains(command, <<"-","r">>)
       /\ (\/ Contains(command, <<"r","m">>)
           \/ Contains(command, <<"c","h","m","o","d">>)
           \/ Contains(command, <<"c","h","o","w","n">>))
    THEN [resp EXCEPT !.Warning = AppendWarning(@, RecursiveWarning)]
    ELSE resp

\* the two additional checks, in the order of the code
AdditionalStepsSwapped(resp, command) ==
    SudoStep(RecursiveStep(resp, command), command)

AdditionalSteps(resp, command) ==
    RecursiveStep(SudoStep(resp, command), command)

\* CheckCommand(response) with s.dangerousPatterns = patterns: the response as
\* the call leaves it
CheckCommand(resp, patterns) ==
    IF resp.Command = <<>> THEN resp
    ELSE LET command == ToLower(resp.Command)
         IN  AdditionalSteps(DangerStep(resp, command, patterns), command)

-----------------------------------------------------------------------------
(* The model registry and the inventory reconciler (models.go), over the   *)
(* transport client's probe and listing (ollama.go).                       *)

llama32_3b ==
    <<"l","l","a","m","a","3",".","2",":","3","b">>

llama32_1b ==
    <<"l","l","a","m","a","3",".","2",":","1","b">>

codegemma_7b ==
    <<"c","o","d","e","g","e","m","m","a",":","7","b">>

llama31_8b ==
    <<"l","l","a","m","a","3",".","1",":","8","b">>

mistral_7b ==
    <<"m","i","s","t","r","a","l",":","7","b">>

phi3_mini ==
    <<"p","h","i","3",":","m","i","n","i">>

ModelInfo(name, ollamaName, recommended, downloaded) ==
    [Name |-> name, OllamaName |-> ollamaName, Recommended |-> recommended,
     Downloaded |-> downloaded]

\* IsAvailable(ctx) returns a nil error: GET /api/tags answers with status 200
IsAvailable ==
    service # "down"

\* ListModels(ctx): [err, models]; the reply may fail to decode
ListModels ==
    IF service = "up" THEN [err |-> FALSE, models |-> remote]
    ELSE [err |-> TRUE, models |-> {}]

\* strings.Split(modelName, ":")[0]
NameWithoutTag(modelName) ==
    Split(modelName, ":")[1]

IsModelAvailableInOllamaExact(modelName) ==
    IF ~IsAvailable THEN FALSE
    ELSE LET listed == ListModels
         IN  IF listed.err THEN FALSE
             ELSE \E model \in listed.models : model = modelName

IsModelAvailableInOllamaIgnoringListError(modelName) ==
    IF ~IsAvailable THEN FALSE
    ELSE LET listed == ListModels
         IN  IF listed.err THEN TRUE
             ELSE \E model \in listed.models :
                     \/ model = modelName
                     \/ Contains(model, NameWithoutTag(modelName))

IsModelAvailableInOllama(modelName) ==
    IF ~IsAvailable THEN FALSE
    ELSE LET listed == ListModels
         IN  IF listed.err THEN FALSE
             ELSE \E model \in listed.models :
                     \/ model = modelName
                     \/ Contains(model, NameWithoutTag(modelName))

\* os.Stat(<modelsPath>/<modelName>/metadata.json) returns a nil error
hasLocalMetadata(modelName) ==
    modelName \in markers

isModelDownloadedLocalOnly(modelName) ==
    hasLocalMetadata(modelName)

isModelDownloaded(modelName) ==
    hasLocalMetadata(modelName) /\ IsModelAvailableInOllama(modelName)

ListAvailableModels ==
    << ModelInfo(llama32_3b, llama32_3b, TRUE, isModelDownloaded(llama32_3b)),
       ModelInfo(llama32_1b, llama32_1b, TRUE, isModelDownloaded(llama32_1b)),
       ModelInfo(codegemma_7b, codegemma_7b, TRUE, isModelDownloaded(codegemma_7b)),
       ModelInfo(llama31_8b, llama31_8b, FALSE, isModelDownloaded(llama31_8b)),
       ModelInfo(mistral_7b, mistral_7b, FALSE, isModelDownloaded(mistral_7b)),
       ModelInfo(phi3_mini, phi3_mini, FALSE, isModelDownloaded(phi3_mini)) >>

\* the first element of the listing whose flag is set, Nil when none is
FirstModel(models, flags) ==
    IF \E i \in 1..Len(models) : flags[i]
    THEN models[CHOOSE i \in 1..Len(models) : flags[i] /\ \A j \in 1..(i - 1) : ~flags[j]]
    ELSE Nil

\* a selection that prefers a downloaded model to the configured default
GetCurrentModelDownloadedFirst ==
    LET models      == ListAvailableModels
        isDefault   == [i \in 1..Len(models) |->
                           \/ models[i].Name = defaultModel
                           \/ models[i].OllamaName = defaultModel]
        downloaded  == [i \in 1..Len(models) |-> models[i].Downloaded]
        recommended == [i \in 1..Len(models) |-> models[i].Recommended]
        any         == [i \in 1..Len(models) |-> TRUE]
    IN  IF FirstModel(models, downloaded) # Nil THEN FirstModel(models, downloaded)
        ELSE IF FirstModel(models, isDefault) # Nil THEN FirstModel(models, isDefault)
        ELSE IF FirstModel(models, recommended) # Nil THEN FirstModel(models, recommended)
        ELSE FirstModel(models, any)

GetCurrentModel ==
    LET models      == ListAvailableModels
        isDefault   == [i \in 1..Len(models) |->
                           \/ models[i].Name = defaultModel
                           \/ models[i].OllamaName = defaultModel]
        downloaded  == [i \in 1..Len(models) |-> models[i].Downloaded]
        recommended == [i \in 1..Len(models) |-> models[i].Recommended]
        any         == [i \in 1..Len(models) |-> TRUE]
    IN  IF FirstModel(models, isDefault) # Nil THEN FirstModel(models, isDefault)
        ELSE IF FirstModel(models, downloaded) # Nil THEN FirstModel(models, downloaded)
        ELSE IF FirstModel(models, recommended) # Nil THEN FirstModel(models, recommended)
        ELSE FirstModel(models, any)

\* a recommendation that does not look at what is downloaded
GetRecommendedModelAnyRecommended ==
    LET models      == ListAvailableModels
        recommended == [i \in 1..Len(models) |-> models[i].Recommended]
        any         == [i \in 1..Len(models) |-> TRUE]
    IN  IF FirstModel(models, recommended) # Nil THEN FirstModel(models, recommended)
        ELSE FirstModel(models, any)

GetRecommendedModel ==
    LET models      == ListAvailableModels
        ready       == [i \in 1..Len(models) |->
                           models[i].Recommended /\ models[i].Downloaded]
        recommended == [i \in 1..Len(models) |-> models[i].Recommended]
        any         == [i \in 1..Len(models) |-> TRUE]
    IN  IF FirstModel(models, ready) # Nil THEN FirstModel(models, ready)
        ELSE IF FirstModel(models, recommended) # Nil THEN FirstModel(models, recommended)
        ELSE FirstModel(models, any)

-----------------------------------------------------------------------------
(* The streaming pull (ollama.go, PullModel) and DownloadModel (models.go). *)

\* one decoded record of the pull stream
PullRecord(status, total, completed, error) ==
    [kind |-> "record", Status |-> status, Total |-> total, Completed |-> completed,
     Error |-> error]

\* what decoder.Decode meets instead of a record: text that is no JSON, or the
\* failure of the read when the deadline scope of the request ends
Malformed ==
    [kind |-> "malformed"]

DeadlineExceeded ==
    [kind |-> "deadline"]

\* a progress computed without the test of Total: 0/0 where Total is 0
ProgressUnguarded(record) ==
    <<record.Completed, record.Total>>

\* float64(Completed) / float64(Total), 0 when Total is not positive: <<num, den>>
Progress(record) ==
    IF record.Total > 0 THEN <<record.Completed, record.Total>> ELSE <<0, 1>>

\* a loop that reports a record to the callback before it looks at its error
RECURSIVE PullLoopCallbackFirst(_, _)
PullLoopCallbackFirst(items, calls) ==
    IF items = <<>> THEN [err |-> "nil", calls |-> calls]
    ELSE LET item == Head(items)
         IN  IF item.kind # "record"
             THEN [err |-> "failed to decode response", calls |-> calls]
             ELSE IF item.Error # ""
             THEN [err |-> "ollama error",
                   calls |-> Append(calls, [status |-> item.Status,
                                            progress |-> Progress(item)])]
             ELSE PullLoopCallbackFirst(Tail(items),
                           Append(calls, [status |-> item.Status,
                                          progress |-> Progress(item)]))

\* a loop that takes the end of the deadline scope for the end of the stream
RECURSIVE PullLoopDeadlineAsEnd(_, _)
PullLoopDeadlineAsEnd(items, calls) ==
    IF items = <<>> THEN [err |-> "nil", calls |-> calls]
    ELSE LET item == Head(items)
         IN  IF item.kind = "deadline"
             THEN [err |-> "nil", calls |-> calls]
             ELSE IF item.kind # "record"
             THEN [err |-> "failed to decode response", calls |-> calls]
             ELSE IF item.Error # ""
             THEN [err |-> "ollama error", calls |-> calls]
             ELSE PullLoopDeadlineAsEnd(Tail(items),
                           Append(calls, [status |-> item.Status,
                                          progress |-> Progress(item)]))

\* the loop of PullModel over the items the decoder meets before the end of the
\* stream: [err, calls], calls being the progress callbacks made
RECURSIVE PullLoop(_, _)
PullLoop(items, calls) ==
    IF items = <<>> THEN [err |-> "nil", calls |-> calls]
    ELSE LET item == Head(items)
         IN  IF item.kind # "record"
             THEN [err |-> "failed to decode response", calls |-> calls]
             ELSE IF item.Error # ""
             THEN [err |-> "ollama error", calls |-> calls]
             ELSE PullLoop(Tail(items),
                           Append(calls, [status |-> item.Status,
                                          progress |-> Progress(item)]))

\* PullModel(ctx, name, callback) on the answer the service gives: the request
\* fails, or answers with another status than 200, or streams records
PullModelIgnoringErrors(pull) ==
    [err |-> "nil", calls |-> <<>>]

PullModel(pull) ==
    IF pull.kind = "transport" THEN [err |-> "failed to pull model", calls |-> <<>>]
    ELSE IF pull.kind = "status" THEN [err |-> "ollama API returned status", calls |-> <<>>]
    ELSE PullLoop(pull.items, <<>>)

\* defer resp.Body.Close(): the body is closed on every return of PullModel that
\* follows a request the service answered
BodyClosed(pull) ==
    pull.kind # "transport"

\* context.WithTimeout(context.Background(), 30*time.Minute), in seconds
PullDeadline ==
    1800

\* the time a pull request is given: the deadline of its context, and the Timeout
\* of the http.Client it is sent with, which NewOllamaClient sets to ai.timeout
\* and which covers the reading of the response body
PullTimeLimit ==
    Min(PullDeadline, timeout)

\* the items the decoder meets when the k-th record of the stream arrives k*gap
\* seconds after the request and the stream ends gap seconds after its last
\* record: the reads made after the time limit fail
Received(items, gap, limit) ==
    LET onTime == Cardinality({k \in 1..Len(items) : k * gap <= limit})
    IN  IF (Len(items) + 1) * gap <= limit THEN items
        ELSE SubSeq(items, 1, onTime) \o <<DeadlineExceeded>>

\* the answer to a pull request as PullModel reads it within the time limit
Delivered(pull, gap) ==
    IF pull.kind = "stream"
    THEN [pull EXCEPT !.items = Received(pull.items, gap, PullTimeLimit)]
    ELSE pull

\* createModelMetadata(modelInfo) under the outcome fs of the file system calls:
\* [err, markers], markers being the markers that exist afterwards
createModelMetadata(modelInfo, fs) ==
    IF fs = "mkdir fails" THEN [err |-> "failed to create model directory", markers |-> markers]
    ELSE IF fs = "create fails"
         THEN [err |-> "failed to create metadata file", markers |-> markers]
    ELSE IF fs = "write fails"
         THEN [err |-> "write failed", markers |-> markers \cup {modelInfo.Name}]
    ELSE [err |-> "nil", markers |-> markers \cup {modelInfo.Name}]

\* What a call of DownloadModel leaves: the error returned, the markers that exist
\* afterwards, whether the pull request was issued and the error PullModel returned.
DownloadResult(err, newMarkers, pulled, pullErr, ollamaName) ==
    [err |-> err, markers |-> newMarkers, pulled |-> pulled, pullErr |-> pullErr,
     ollamaName |-> ollamaName]

DownloadModelMarkerFirst(modelName, pull, fs) ==
    LET models == ListAvailableModels
        named == [i \in 1..Len(models) |-> models[i].Name = modelName]
        modelInfo == FirstModel(models, named)
    IN  IF modelInfo = Nil
        THEN DownloadResult("unknown model", markers, FALSE, "nil", <<>>)
        ELSE IF ~IsAvailable
        THEN DownloadResult("ollama service is not available", markers, FALSE, "nil", <<>>)
        ELSE IF IsModelAvailableInOllama(modelInfo.OllamaName)
        THEN DownloadResult("already downloaded", markers, FALSE, "nil", <<>>)
        ELSE LET meta   == createModelMetadata(modelInfo, fs)
                 pulled == PullModel(pull)
             IN  IF pulled.err # "nil"
                 THEN DownloadResult("failed to download model", meta.markers, TRUE,
                                     pulled.err, modelInfo.OllamaName)
                 ELSE DownloadResult("nil", meta.markers, TRUE, "nil",
                                     modelInfo.OllamaName)

DownloadModel(modelName, pull, fs) ==
    LET models == ListAvailableModels
        named == [i \in 1..Len(models) |-> models[i].Name = modelName]
        modelInfo == FirstModel(models, named)
    IN  IF modelInfo = Nil
        THEN DownloadResult("unknown model", markers, FALSE, "nil", <<>>)
        ELSE IF ~IsAvailable
        THEN DownloadResult("ollama service is not available", markers, FALSE, "nil", <<>>)
        ELSE IF IsModelAvailableInOllama(modelInfo.OllamaName)
        THEN DownloadResult("already downloaded", markers, FALSE, "nil", <<>>)
        ELSE LET pulled == PullModel(pull)
             IN  IF pulled.err # "nil"
                 THEN DownloadResult("failed to download model", markers, TRUE,
                                     pulled.err, modelInfo.OllamaName)
                 ELSE DownloadResult("nil", createModelMetadata(modelInfo, fs).markers,
                                     TRUE, "nil", modelInfo.OllamaName)

\* The transport calls an operation makes, grouped by the deadline scope they
\* are made under: a sequence with one element per context.WithTimeout, each
\* element the sequence of the calls that are given that context.

\* IsModelAvailableInOllama: one context for the probe and for the listing
IsModelAvailableInOllamaScopes ==
    << IF IsAvailable THEN <<"IsAvailable", "ListModels">> ELSE <<"IsAvailable">> >>

\* hasLocalMetadata(modelName) && IsModelAvailableInOllama(modelName)
isModelDownloadedScopes(modelName) ==
    IF hasLocalMetadata(modelName) THEN IsModelAvailableInOllamaScopes ELSE <<>>

ListAvailableModelsScopes ==
    isModelDownloadedScopes(llama32_3b) \o isModelDownloadedScopes(llama32_1b)
    \o isModelDownloadedScopes(codegemma_7b) \o isModelDownloadedScopes(llama31_8b)
    \o isModelDownloadedScopes(mistral_7b) \o isModelDownloadedScopes(phi3_mini)

\* a DownloadModel that sends the pull request before it asks the service
\* whether it holds the model
DownloadModelScopesPullFirst(modelName) ==
    LET models == ListAvailableModels
        named == [i \in 1..Len(models) |-> models[i].Name = modelName]
        modelInfo == FirstModel(models, named)
    IN  ListAvailableModelsScopes
        \o (IF modelInfo = Nil THEN <<>>
            ELSE << <<"IsAvailable">> >>
                 \o (IF ~IsAvailable THEN <<>>
                     ELSE (IF IsModelAvailableInOllama(modelInfo.OllamaName) THEN <<>>
                           ELSE << <<"PullModel">> >>)
                          \o IsModelAvailableInOllamaScopes))

\* DownloadModel: the listing, then a context for the probe, the contexts of
\* IsModelAvailableInOllama, and a context for the pull
DownloadModelScopes(modelName) ==
    LET models == ListAvailableModels
        named == [i \in 1..Len(models) |-> models[i].Name = modelName]
        modelInfo == FirstModel(models, named)
    IN  ListAvailableModelsScopes
        \o (IF modelInfo = Nil THEN <<>>
            ELSE << <<"IsAvailable">> >>
                 \o (IF ~IsAvailable THEN <<>>
                     ELSE IsModelAvailableInOllamaScopes
                          \o (IF IsModelAvailableInOllama(modelInfo.OllamaName) THEN <<>>
                              ELSE << <<"PullModel">> >>)))

-----------------------------------------------------------------------------
(* Generation (ollama.go, Generate; client.go, GenerateCommand).           *)

\* the answer of the service to a generate request: the request fails, or answers
\* with another status than 200, or with a body that does not decode, or with a
\* decoded OllamaResponse whose fields are Response and Error
GenerateReply(kind, responseText, errorText) ==
    [kind |-> kind, Response |-> responseText, Error |-> errorText]

\* What Generate and GenerateCommand leave: the response and error returned, or a
\* run-time panic; whether the interpreter and the classifier ran, and how many
\* generate requests were sent.
GenerateResult(resp, err, panic, interpreted, classified, requests) ==
    [resp |-> resp, err |-> err, panic |-> panic, interpreted |-> interpreted,
     classified |-> classified, requests |-> requests]

\* a Generate that interprets the response text whatever the error field holds
GenerateIgnoringError(modelName, reply) ==
    IF reply.kind = "transport"
    THEN GenerateResult(Nil, "failed to send request to ollama", FALSE, FALSE, FALSE, 1)
    ELSE IF reply.kind = "status"
    THEN GenerateResult(Nil, "ollama API returned status", FALSE, FALSE, FALSE, 1)
    ELSE IF reply.kind = "undecodable"
    THEN GenerateResult(Nil, "failed to decode response", FALSE, FALSE, FALSE, 1)
    ELSE LET parsed == parseOllamaResponse(reply.Response)
         IN  GenerateResult(parsed.resp, "nil", parsed.panic, TRUE, FALSE, 1)

Generate(modelName, reply) ==
    IF reply.kind = "transport"
    THEN GenerateResult(Nil, "failed to send request to ollama", FALSE, FALSE, FALSE, 1)
    ELSE IF reply.kind = "status"
    THEN GenerateResult(Nil, "ollama API returned status", FALSE, FALSE, FALSE, 1)
    ELSE IF reply.kind = "undecodable"
    THEN GenerateResult(Nil, "failed to decode response", FALSE, FALSE, FALSE, 1)
    ELSE IF reply.Error # ""
    THEN GenerateResult(Nil, "ollama error", FALSE, FALSE, FALSE, 1)
    ELSE LET parsed == parseOllamaResponse(reply.Response)
         IN  GenerateResult(parsed.resp, "nil", parsed.panic, TRUE, FALSE, 1)

\* the steps of GenerateCommand that follow the call of Generate: the error is
\* wrapped, and the response goes through CheckCommand when
\* safety.require_confirm is set
GenerateCommandCheck(generated) ==
    IF generated.panic THEN generated
    ELSE IF generated.err # "nil"
    THEN [generated EXCEPT !.err = "failed to generate command"]
    ELSE IF requireConfirm
    THEN [generated EXCEPT !.resp = CheckCommand(generated.resp, dangerousPatterns),
                           !.classified = TRUE]
    ELSE generated

\* a GenerateCommand that does not ask whether the service holds the model
GenerateCommandUnverified(reply) ==
    IF ~IsAvailable
    THEN GenerateResult(Nil, "ollama service is not available", FALSE, FALSE, FALSE, 0)
    ELSE LET currentModel == GetCurrentModel
         IN  IF currentModel = Nil
             THEN GenerateResult(Nil, "no AI model configured", FALSE, FALSE, FALSE, 0)
             ELSE CHOOSE result \in
                      { GenerateCommandCheck(generated) :
                          generated \in {Generate(currentModel.Name, reply)} } : TRUE

GenerateCommand(reply) ==
    IF ~IsAvailable
    THEN GenerateResult(Nil, "ollama service is not available", FALSE, FALSE, FALSE, 0)
    ELSE LET currentModel == GetCurrentModel
         IN  IF currentModel = Nil
             THEN GenerateResult(Nil, "no AI model configured", FALSE, FALSE, FALSE, 0)
             ELSE IF ~IsModelAvailableInOllama(currentModel.Name)
             THEN GenerateResult(Nil, "model is not available in Ollama", FALSE, FALSE,
                                 FALSE, 0)
             ELSE CHOOSE result \in
                      { GenerateCommandCheck(generated) :
                          generated \in {Generate(currentModel.Name, reply)} } : TRUE

-----------------------------------------------------------------------------
(* Inputs: the texts, responses and configurations the operations are      *)
(* applied to.                                                             *)

\* all sequences of at most n elements of S
SeqsUpTo(S, n) ==
    UNION {[1..k -> S] : k \in 0..n}

\* all sequences of at most n distinct elements of S
DistinctSeqsUpTo(S, n) ==
    {q \in SeqsUpTo(S, n) : \A i, j \in 1..Len(q) : i # j => q[i] # q[j]}

\* replies made of braces, blanks and letters only
BracePool ==
    SeqsUpTo({"{", "}", " ", "x"}, MaxBraces)

\* the members a structured reply may hold
MemberPool ==
    { \* "command":" ls -la "
      <<"\"","c","o","m","m","a","n","d","\"",":","\""," ","l","s"," ","-","l","a"," ","\"">>,
      \* "command":""
      <<"\"","c","o","m","m","a","n","d","\"",":","\"","\"">>,
      \* "command":7
      <<"\"","c","o","m","m","a","n","d","\"",":","7">>,
      \* "confidence":0.9
      <<"\"","c","o","n","f","i","d","e","n","c","e","\"",":","0",".","9">>,
      \* "confidence":"high"
      <<"\"","c","o","n","f","i","d","e","n","c","e","\"",":","\"","h","i","g","h","\"">>,
      \* "warning":"careful"
      <<"\"","w","a","r","n","i","n","g","\"",":","\"","c","a","r","e","f","u","l","\"">>,
      \* "explanation":"x"
      <<"\"","e","x","p","l","a","n","a","t","i","o","n","\"",":","\"","x","\"">>,
      \* "alternatives":["ll",1,"dir"]
      <<"\"","a","l","t","e","r","n","a","t","i","v","e","s","\"",":","[","\"","l","l","\"",
        ",","1",",","\"","d","i","r","\"","]">> }

\* { member, member, ... } with text before and after it
JsonText(prefix, members, suffix) ==
    prefix \o <<"{">> \o JoinWith(members, <<",">>) \o <<"}">> \o suffix

JsonPool ==
    {JsonText(pre, members, suf) :
        pre \in {<<>>, <<"S","u","r","e",":"," ">>},
        members \in DistinctSeqsUpTo(MemberPool, MaxMembers),
        suf \in {<<>>, <<"\n">>, <<" ","}">>}}

\* replies in free text, for the fallback path
LinePool ==
    { \* "Sure! Try this:\n\n$ du -sh .\n"
      <<"S","u","r","e","!"," ","T","r","y"," ","t","h","i","s",":","\n","\n","$"," ","d",
        "u"," ","-","s","h"," ",".","\n">>,
      \* "# note\nrun `ls -la` now"
      <<"#"," ","n","o","t","e","\n","r","u","n"," ",Backtick,"l","s"," ","-","l","a",
        Backtick," ","n","o","w">>,
      \* "I cannot help"
      <<"I"," ","c","a","n","n","o","t"," ","h","e","l","p">>,
      \* "pwd"
      <<"p","w","d">> }

RawPool ==
    BracePool \cup JsonPool \cup LinePool

CommandPool ==
    { <<>>,
      <<"l","s"," ","-","l","a">>,
      <<"r","m"," ","-","r","f"," ","/">>,
      <<"R","M"," ","-","R","F"," ","/","t","m","p">>,
      <<"s","u","d","o"," ","r","m"," ","-","r","f"," ","/">>,
      <<"s","u","d","o"," ","l","s">>,
      <<"c","h","m","o","d"," ","-","R"," ","7","5","5"," ",".">>,
      <<"m","k","f","s"," ","/","d","e","v","/","s","d","a">>,
      <<"r","m"," ","f","i","l","e">> }

\* entries of safety.dangerous_commands: "rm -rf", "mkfs", "sudo rm", "RM"
PatternPool ==
    { <<"r","m"," ","-","r","f">>,
      <<"m","k","f","s">>,
      <<"s","u","d","o"," ","r","m">>,
      <<"R","M">> }

PatternLists ==
    DistinctSeqsUpTo(PatternPool, MaxPatterns)

\* warning texts a response may carry before classification
WarningPool ==
    { <<>>,
      <<"c","a","r","e","f","u","l">>,
      <<"n","e","e","d","s"," ","s","u","d","o">> }

ConfidencePool ==
    {0, 30, 50, 51, 95}

ResponsePool ==
    {CommandResponse(c, <<"x">>, w, n, a) :
        c \in CommandPool, w \in WarningPool, n \in ConfidencePool,
        a \in {<<>>, << <<"l","l">> >>}}

-----------------------------------------------------------------------------
(* The response interpreter applied to a reply.                            *)

InitInterp ==
    /\ markers = {}
    /\ remote = {}
    /\ service = "up"
    /\ defaultModel = <<>>
    /\ dangerousPatterns = <<>>
    /\ requireConfirm = TRUE
    /\ timeout = DefaultTimeout
    /\ mu = Unlocked
    /\ file = NoFile
    /\ callers = NoCallers
    /\ raw \in RawPool
    /\ response = Nil
    /\ last = NoOp

Interpret ==
    /\ last.op = "none"
    /\ last' = [op |-> "parseOllamaResponse", out |-> parseOllamaResponse(raw)]
    /\ UNCHANGED <<markers, remote, service, defaultModel, dangerousPatterns,
                   requireConfirm, timeout, mu, file, callers, raw, response>>

NextInterp ==
    Interpret

SpecInterp ==
    InitInterp /\ [][NextInterp]_vars

-----------------------------------------------------------------------------
(* The safety classifier applied to a response.                            *)

InitSafety ==
    /\ markers = {}
    /\ remote = {}
    /\ service = "up"
    /\ defaultModel = <<>>
    /\ dangerousPatterns \in PatternLists
    /\ requireConfirm = TRUE
    /\ timeout = DefaultTimeout
    /\ mu = Unlocked
    /\ file = NoFile
    /\ callers = NoCallers
    /\ raw = <<>>
    /\ response \in ResponsePool
    /\ last = NoOp

Classify ==
    /\ last.op = "none"
    /\ response' = CheckCommand(response, dangerousPatterns)
    /\ last' = [op |-> "CheckCommand", before |-> response]
    /\ UNCHANGED <<markers, remote, service, defaultModel, dangerousPatterns,
                   requireConfirm, timeout, mu, file, callers, raw>>

NextSafety ==
    Classify

SpecSafety ==
    InitSafety /\ [][NextSafety]_vars

-----------------------------------------------------------------------------
(* The inventory: downloads and listings by shell-agent, and what happens   *)
(* to the Ollama service outside it (ollama rm, ollama pull, the service    *)
(* stopping or answering with a reply that does not decode).                *)

\* names the service may hold: the catalog's, and a tag the catalog lacks
RemotePool ==
    { llama32_3b, llama32_1b, codegemma_7b, llama31_8b, mistral_7b, phi3_mini,
      <<"m","i","s","t","r","a","l",":","l","a","t","e","s","t">> }

\* names a download may be asked for: the catalog's, and one it lacks
RequestPool ==
    { llama32_3b, llama32_1b, codegemma_7b, llama31_8b, mistral_7b, phi3_mini,
      <<"g","p","t","-","4">> }

RecManifest ==
    PullRecord("pulling manifest", 0, 0, "")

RecHalf ==
    PullRecord("downloading", 100, 50, "")

RecError ==
    PullRecord("", 0, 0, "pull model manifest: file does not exist")

\* answers of the service to a pull request
DownloadPulls ==
    { [kind |-> "transport", items |-> <<>>],
      [kind |-> "status", items |-> <<>>],
      [kind |-> "stream", items |-> <<>>],
      [kind |-> "stream", items |-> <<RecManifest, RecHalf>>],
      [kind |-> "stream", items |-> <<RecHalf, RecError>>],
      [kind |-> "stream", items |-> <<Malformed>>],
      [kind |-> "stream", items |-> <<RecHalf, DeadlineExceeded>>] }

FsOutcomes ==
    {"ok", "mkdir fails", "create fails", "write fails"}

InitInventory ==
    /\ markers = {}
    /\ remote = {}
    /\ service = "up"
    /\ defaultModel = llama32_3b
    /\ dangerousPatterns = <<>>
    /\ requireConfirm = TRUE
    /\ timeout = DefaultTimeout
    /\ mu = Unlocked
    /\ file = NoFile
    /\ callers = NoCallers
    /\ raw = <<>>
    /\ response = Nil
    /\ last = NoOp

\* shell-agent download --list
ListModelsCommand ==
    /\ last.op = "none"
    /\ last' = [op |-> "ListAvailableModels", models |-> ListAvailableModels]
    /\ UNCHANGED <<markers, remote, service, defaultModel, dangerousPatterns,
                   requireConfirm, timeout, mu, file, callers, raw, response>>

\* DownloadModel(modelName); a pull that succeeds leaves the model in the service.
\* The file system outcomes are told apart only where the pull succeeds, the one
\* case in which DownloadModel touches the file system.
DownloadCommand ==
    /\ last.op = "none"
    /\ \E modelName \in RequestPool, pull \in DownloadPulls, fs \in FsOutcomes :
        /\ fs = "ok" \/ PullModel(pull).err = "nil"
        /\ \E result \in {DownloadModel(modelName, pull, fs)} :
            \E installed \in {result.pulled /\ result.pullErr = "nil"} :
                /\ installed => Cardinality(remote \cup {result.ollamaName}) <= MaxRemote
                /\ markers' = result.markers
                /\ remote' = IF installed THEN remote \cup {result.ollamaName} ELSE remote
                /\ last' = [op |-> "DownloadModel", modelName |-> modelName,
                            err |-> result.err, pulled |-> result.pulled,
                            pullErr |-> result.pullErr, markersBefore |-> markers,
                            remoteBefore |-> remote,
                            scopes |-> DownloadModelScopes(modelName),
                            pull |-> IF result.pulled THEN pull ELSE Nil,
                            closed |-> result.pulled /\ BodyClosed(pull),
                            fs |-> IF installed THEN fs ELSE "ok"]
    /\ UNCHANGED <<service, defaultModel, dangerousPatterns, requireConfirm, timeout,
                   mu, file, callers, raw,
                   response>>

\* the command ends and its result is taken
Return ==
    /\ last.op # "none"
    /\ last' = NoOp
    /\ UNCHANGED <<markers, remote, service, defaultModel, dangerousPatterns,
                   requireConfirm, timeout, mu, file, callers, raw, response>>

\* ollama rm <name>, outside shell-agent
RemoteRemove ==
    /\ last.op = "none"
    /\ \E name \in remote : remote' = remote \ {name}
    /\ UNCHANGED <<markers, service, defaultModel, dangerousPatterns, requireConfirm, timeout,
                   mu, file, callers,
                   raw, response, last>>

\* ollama pull <name>, outside shell-agent
RemoteInstall ==
    /\ last.op = "none"
    /\ Cardinality(remote) < MaxRemote
    /\ \E name \in RemotePool \ remote : remote' = remote \cup {name}
    /\ UNCHANGED <<markers, service, defaultModel, dangerousPatterns, requireConfirm, timeout,
                   mu, file, callers,
                   raw, response, last>>

\* the service stops, starts, or starts answering with replies that do not decode
ServiceChange ==
    /\ last.op = "none"
    /\ \E s \in {"up", "down", "garbled"} \ {service} : service' = s
    /\ UNCHANGED <<markers, remote, defaultModel, dangerousPatterns, requireConfirm, timeout,
                   mu, file, callers,
                   raw, response, last>>

NextInventory ==
    \/ ListModelsCommand
    \/ DownloadCommand
    \/ Return
    \/ RemoteRemove
    \/ RemoteInstall
    \/ ServiceChange

SpecInventory ==
    InitInventory /\ [][NextInventory]_vars

\* the inventory when the service stays up and the only change made outside
\* shell-agent is the removal of models from the service
NextDownloads ==
    \/ ListModelsCommand
    \/ DownloadCommand
    \/ Return
    \/ RemoteRemove

SpecDownloads ==
    InitInventory /\ [][NextDownloads]_vars

-----------------------------------------------------------------------------
(* PullModel, on the answers of the service and under the configured        *)
(* timeout.                                                                 *)

\* what a pull stream may hold
StreamItems ==
    {RecManifest, RecHalf, RecError, Malformed}

PullPool ==
    { [kind |-> "transport", items |-> <<>>], [kind |-> "status", items |-> <<>>] }
    \cup {[kind |-> "stream", items |-> items] : items \in SeqsUpTo(StreamItems, MaxRecords)}

\* seconds between two records of a stream
GapPool ==
    {10, 100, 1000}

\* values of ai.timeout
TimeoutPool ==
    {30, DefaultTimeout, 3600}

InitPull ==
    /\ markers = {}
    /\ remote = {}
    /\ service = "up"
    /\ defaultModel = llama32_3b
    /\ dangerousPatterns = <<>>
    /\ requireConfirm = TRUE
    /\ timeout \in TimeoutPool
    /\ mu = Unlocked
    /\ file = NoFile
    /\ callers = NoCallers
    /\ raw = <<>>
    /\ response = Nil
    /\ last = NoOp

\* PullModel(ctx, name, callback) with the context DownloadModel gives it
PullCall ==
    /\ last.op = "none"
    /\ \E pull \in PullPool, gap \in GapPool :
        \E met \in {Delivered(pull, gap)} :
            \E result \in {PullModel(met)} :
                last' = [op |-> "PullModel", pull |-> pull, gap |-> gap,
                         met |-> met.items, err |-> result.err,
                         calls |-> result.calls, closed |-> BodyClosed(met)]
    /\ UNCHANGED <<markers, remote, service, defaultModel, dangerousPatterns,
                   requireConfirm, timeout, mu, file, callers, raw, response>>

NextPull ==
    PullCall

SpecPull ==
    InitPull /\ [][NextPull]_vars

-----------------------------------------------------------------------------
(* The queries of the registry, in the states of markers, remote inventory  *)
(* and configuration that downloads, removals and settings lead to.         *)

CatalogNames ==
    {llama32_3b, llama32_1b, codegemma_7b, llama31_8b, mistral_7b, phi3_mini}

\* values of ai.default_model: a catalog name, a name the catalog lacks, none
DefaultPool ==
    {codegemma_7b, <<"g","p","t","-","4">>, <<>>}

\* names IsModelAvailableInOllama is asked about: with a tag, without one, without
\* a name before the tag, with two separators, and the empty name
QueryPool ==
    { llama32_3b, <<"m","i","s","t","r","a","l">>, <<":","7","b">>,
      <<"p","h","i","3",":","m","i","n","i",":","q","4">>, <<>> }

InitRegistry ==
    /\ markers \in {m \in SUBSET CatalogNames : Cardinality(m) <= MaxRemote}
    /\ remote \in {r \in SUBSET RemotePool : Cardinality(r) <= MaxRemote}
    /\ service \in {"up", "down", "garbled"}
    /\ defaultModel \in DefaultPool
    /\ dangerousPatterns = <<>>
    /\ requireConfirm = TRUE
    /\ timeout = DefaultTimeout
    /\ mu = Unlocked
    /\ file = NoFile
    /\ callers = NoCallers
    /\ raw = <<>>
    /\ response = Nil
    /\ last = NoOp

GetCurrentModelCall ==
    /\ last.op = "none"
    /\ last' = [op |-> "GetCurrentModel", models |-> ListAvailableModels,
                chosen |-> GetCurrentModel]
    /\ UNCHANGED <<markers, remote, service, defaultModel, dangerousPatterns,
                   requireConfirm, timeout, mu, file, callers, raw, response>>

GetRecommendedModelCall ==
    /\ last.op = "none"
    /\ last' = [op |-> "GetRecommendedModel", models |-> ListAvailableModels,
                chosen |-> GetRecommendedModel]
    /\ UNCHANGED <<markers, remote, service, defaultModel, dangerousPatterns,
                   requireConfirm, timeout, mu, file, callers, raw, response>>

IsModelAvailableCall ==
    /\ last.op = "none"
    /\ \E modelName \in QueryPool :
        last' = [op |-> "IsModelAvailableInOllama", modelName |-> modelName,
                 available |-> IsModelAvailableInOllama(modelName)]
    /\ UNCHANGED <<markers, remote, service, defaultModel, dangerousPatterns,
                   requireConfirm, timeout, mu, file, callers, raw, response>>

NextRegistry ==
    \/ GetCurrentModelCall
    \/ GetRecommendedModelCall
    \/ IsModelAvailableCall

SpecRegistry ==
    InitRegistry /\ [][NextRegistry]_vars

-----------------------------------------------------------------------------
(* The interpreter on replies that hold the JSON text of a known object.    *)

\* the decimal digits of a natural number
RECURSIVE EncodeNat(_)
EncodeNat(n) ==
    IF n < 10 THEN <<Digits[n + 1]>>
    ELSE EncodeNat(n \div 10) \o <<Digits[(n % 10) + 1]>>

\* a number of hundredths as JSON text, with two decimals: 90 is 0.90
EncodeNumber(n) ==
    LET mag == IF n < 0 THEN 0 - n ELSE n
    IN  (IF n < 0 THEN <<"-">> ELSE <<>>) \o EncodeNat(mag \div 100) \o <<".">>
        \o <<Digits[((mag \div 10) % 10) + 1], Digits[(mag % 10) + 1]>>

Quoted(s) ==
    <<"\"">> \o s \o <<"\"">>

\* the JSON text of a string, a number, a literal, or an array of them
EncodeScalar(v) ==
    IF v.t = "string" THEN Quoted(v.s)
    ELSE IF v.t = "float64" THEN EncodeNumber(v.n)
    ELSE v.x

Encode(v) ==
    IF v.t = "array"
    THEN <<"[">> \o JoinWith([k \in 1..Len(v.a) |-> EncodeScalar(v.a[k])], <<",">>)
         \o <<"]">>
    ELSE EncodeScalar(v)

\* "key":value
EncodeMember(member) ==
    Quoted(member[1]) \o <<":">> \o Encode(member[2])

\* the members a known object may hold: <<key, value>>
FieldPool ==
    { <<<<"c","o","m","m","a","n","d">>, JString(<<" ","l","s"," ","-","l","a"," ">>)>>,
      <<<<"c","o","m","m","a","n","d">>, JString(<<>>)>>,
      <<<<"c","o","m","m","a","n","d">>, JNumber(700)>>,
      <<<<"c","o","n","f","i","d","e","n","c","e">>, JNumber(90)>>,
      <<<<"c","o","n","f","i","d","e","n","c","e">>, JNumber(-150)>>,
      <<<<"c","o","n","f","i","d","e","n","c","e">>, JString(<<"h","i","g","h">>)>>,
      <<<<"w","a","r","n","i","n","g">>, JString(<<"c","a","r","e","f","u","l">>)>>,
      <<<<"w","a","r","n","i","n","g">>, JLiteral(<<"n","u","l","l">>)>>,
      <<<<"e","x","p","l","a","n","a","t","i","o","n">>, JString(<<"x">>)>>,
      <<<<"a","l","t","e","r","n","a","t","i","v","e","s">>, JArray(<<JString(<<"l","l">>), JNumber(100),
                                 JString(<<"d","i","r">>)>>)>>,
      <<<<"a","l","t","e","r","n","a","t","i","v","e","s">>, JString(<<"l","l">>)>> }

\* objects of at most MaxMembers members with distinct keys
ObjectPool ==
    {members \in DistinctSeqsUpTo(FieldPool, MaxMembers) :
        \A i, j \in 1..Len(members) : i # j => members[i][1] # members[j][1]}

InitStructured ==
    /\ markers = {}
    /\ remote = {}
    /\ service = "up"
    /\ defaultModel = <<>>
    /\ dangerousPatterns = <<>>
    /\ requireConfirm = TRUE
    /\ timeout = DefaultTimeout
    /\ mu = Unlocked
    /\ file = NoFile
    /\ callers = NoCallers
    /\ raw = <<>>
    /\ response = Nil
    /\ last = NoOp

\* the model answers with text around the JSON text of an object, and
\* parseOllamaResponse interprets the reply
InterpretObject ==
    /\ last.op = "none"
    /\ \E members \in ObjectPool,
          pre \in {<<>>, <<"S","u","r","e",":"," ">>},
          suf \in {<<>>, <<"\n">>, <<" ","o","k","?">>} :
        \E text \in {JsonText(pre, [k \in 1..Len(members) |-> EncodeMember(members[k])],
                               suf)} :
            /\ raw' = text
            /\ last' = [op |-> "parseOllamaResponse", object |-> members,
                        out |-> parseOllamaResponse(text)]
    /\ UNCHANGED <<markers, remote, service, defaultModel, dangerousPatterns,
                   requireConfirm, timeout, mu, file, callers, response>>

NextStructured ==
    InterpretObject

SpecStructured ==
    InitStructured /\ [][NextStructured]_vars

-----------------------------------------------------------------------------
(* The interpreter on replies in free text, made of lines.                  *)

\* the lines a reply may hold: empty, blank, a comment, a shell prompt and a
\* command, a command between code delimiters, two code delimiters with nothing
\* between them, one word, a sentence, a shell prompt after a delimited command,
\* a word in braces
LineChoices ==
    { <<>>,
      <<" "," ">>,
      <<"#"," ","n","o","t","e">>,
      <<"$"," ","d","u"," ","-","s","h"," ",".">>,
      <<"r","u","n"," ",Backtick,"l","s"," ","-","l","a",Backtick," ","n","o","w">>,
      <<Backtick,Backtick>>,
      <<"p","w","d">>,
      <<"I"," ","c","a","n","n","o","t"," ","h","e","l","p">>,
      <<Backtick,"l","s",Backtick,"$">>,
      <<"{","o","o","p","s","}">> }

InitFallback ==
    /\ markers = {}
    /\ remote = {}
    /\ service = "up"
    /\ defaultModel = <<>>
    /\ dangerousPatterns = <<>>
    /\ requireConfirm = TRUE
    /\ timeout = DefaultTimeout
    /\ mu = Unlocked
    /\ file = NoFile
    /\ callers = NoCallers
    /\ raw = <<>>
    /\ response = Nil
    /\ last = NoOp

\* the model answers with lines of free text, and parseOllamaResponse interprets
\* the reply
InterpretLines ==
    /\ last.op = "none"
    /\ \E lines \in SeqsUpTo(LineChoices, MaxLines) :
        \E text \in {JoinWith(lines, <<"\n">>)} :
            /\ raw' = text
            /\ last' = [op |-> "parseOllamaResponse", lines |-> lines,
                        out |-> parseOllamaResponse(text)]
    /\ UNCHANGED <<markers, remote, service, defaultModel, dangerousPatterns,
                   requireConfirm, timeout, mu, file, callers, response>>

NextFallback ==
    InterpretLines

SpecFallback ==
    InitFallback /\ [][NextFallback]_vars

-----------------------------------------------------------------------------
(* GenerateCommand, called in a state of the inventory that downloads and   *)
(* removals lead to, under a configuration.                                 *)

\* {"command":"<command>","confidence":<number>}
StructuredReply(command, number) ==
    <<"{","\"","c","o","m","m","a","n","d","\"",":","\"">> \o command
    \o <<"\"",",","\"","c","o","n","f","i","d","e","n","c","e","\"",":">> \o number
    \o <<"}">>

\* the confidence a reply states: 0.95, 0.3, 1.5, -1
NumberPool ==
    { <<"0",".","9","5">>, <<"0",".","3">>, <<"1",".","5">>, <<"-","1">> }

ReplyTextPool ==
    {StructuredReply(c, n) : c \in CommandPool, n \in NumberPool}
    \cup LinePool \cup {<<"}"," ","{">>}

ReplyPool ==
    {GenerateReply("decoded", text, "") : text \in ReplyTextPool}
    \cup { GenerateReply("transport", <<>>, ""),
           GenerateReply("status", <<>>, ""),
           GenerateReply("undecodable", <<>>, ""),
           GenerateReply("decoded", StructuredReply(<<"l","s">>, <<"0",".","9","5">>),
                         "model not found") }

InitGenerate ==
    /\ markers \in {{}, {llama32_3b}}
    /\ remote \in {{}, {llama32_3b}, {codegemma_7b}}
    /\ service \in {"up", "down", "garbled"}
    /\ defaultModel \in {llama32_3b, <<"g","p","t","-","4">>}
    /\ dangerousPatterns \in PatternLists
    /\ requireConfirm \in BOOLEAN
    /\ timeout = DefaultTimeout
    /\ mu = Unlocked
    /\ file = NoFile
    /\ callers = NoCallers
    /\ raw = <<>>
    /\ response = Nil
    /\ last = NoOp

\* GenerateCommand(input), the service answering the generate request with raw
GenerateCommandCall ==
    /\ last.op = "none"
    /\ \E reply \in ReplyPool :
        \E result \in {GenerateCommand(reply)} :
            /\ result.requests > 0 \/ reply.kind = "transport"
            /\ raw' = IF result.requests > 0 THEN reply.Response ELSE <<>>
            /\ response' = result.resp
            /\ last' = [op |-> "GenerateCommand", err |-> result.err,
                        panic |-> result.panic, interpreted |-> result.interpreted,
                        classified |-> result.classified, requests |-> result.requests,
                        replyKind |-> IF result.requests > 0 THEN reply.kind ELSE "none",
                        replyError |-> IF result.requests > 0 THEN reply.Error ELSE ""]
    /\ UNCHANGED <<markers, remote, service, defaultModel, dangerousPatterns,
                   requireConfirm, timeout, mu, file, callers>>

NextGenerate ==
    GenerateCommandCall

SpecGenerate ==
    InitGenerate /\ [][NextGenerate]_vars

-----------------------------------------------------------------------------
(* Properties of the response interpreter.                                 *)

\* C1: for every reply text, whatever the number and position of its braces,
\* parseOllamaResponse completes without a run-time fault and returns a non-nil
\* CommandResponse with a nil error.
C1_InterpretNeverFaults ==
    last.op = "parseOllamaResponse" =>
        /\ ~last.out.panic
        /\ last.out.resp # Nil
        /\ last.out.err = Nil

-----------------------------------------------------------------------------
(* Properties of the safety classifier.                                    *)

ClassifiedBefore ==
    last.before

\* the command contains the pattern, case-insensitively
ContainsFold(command, pattern) ==
    Contains(ToLower(command), ToLower(pattern))

\* the number of places at which sub occurs in s
Occurrences(s, sub) ==
    Cardinality({i \in 0..(Len(s) - Len(sub)) : SubSeq(s, i + 1, i + Len(sub)) = sub})

\* the texts joined by newlines, an empty first text left out
JoinedWarnings(before, added) ==
    JoinWith((IF before = <<>> THEN <<>> ELSE <<before>>) \o added, <<"\n">>)

\* C7: for a response with a non-empty command that contains, case-insensitively,
\* a configured dangerous pattern, CheckCommand appends exactly one danger warning,
\* which names the first matching pattern in list order, and leaves the confidence
\* at min(previous confidence, 0.5), never above the previous confidence.
C7_FirstPatternWarnsAndClamps ==
    (/\ last.op = "CheckCommand"
     /\ ClassifiedBefore.Command # <<>>
     /\ \E k \in 1..Len(dangerousPatterns) :
            ContainsFold(ClassifiedBefore.Command, dangerousPatterns[k]))
    => LET first == CHOOSE k \in 1..Len(dangerousPatterns) :
                       /\ ContainsFold(ClassifiedBefore.Command, dangerousPatterns[k])
                       /\ \A j \in 1..(k - 1) :
                            ~ContainsFold(ClassifiedBefore.Command, dangerousPatterns[j])
           danger == DangerPrefix \o dangerousPatterns[first] \o DangerSuffix
       IN  /\ HasPrefix(response.Warning, JoinedWarnings(ClassifiedBefore.Warning, <<danger>>))
           /\ Occurrences(response.Warning, DangerPrefix)
                = Occurrences(ClassifiedBefore.Warning, DangerPrefix) + 1
           /\ response.Confidence = Min(ClassifiedBefore.Confidence, 50)
           /\ response.Confidence <= ClassifiedBefore.Confidence

\* C7's case: a command that two configured patterns match, the first in list
\* order not being the only one, with a prior warning and a confidence above 0.5
C7_Witness ==
    /\ last.op = "CheckCommand"
    /\ ClassifiedBefore.Command # <<>>
    /\ ClassifiedBefore.Warning # <<>>
    /\ ClassifiedBefore.Confidence > 50
    /\ Len(dangerousPatterns) = 2
    /\ \A k \in 1..2 : ContainsFold(ClassifiedBefore.Command, dangerousPatterns[k])
    /\ response.Confidence = 50

\* C8: the warning text before CheckCommand is a prefix of the warning text after
\* it; the warnings added are joined with newlines and appear in the order danger
\* pattern, administrative privileges, recursive operation.
C8_WarningsAppendInOrder ==
    last.op = "CheckCommand" =>
        /\ HasPrefix(response.Warning, ClassifiedBefore.Warning)
        /\ \E d, a, r \in BOOLEAN : \E k \in 0..Len(dangerousPatterns) :
            /\ d <=> (k > 0)
            /\ response.Warning =
                 JoinedWarnings(ClassifiedBefore.Warning,
                     (IF d THEN <<DangerPrefix \o dangerousPatterns[k] \o DangerSuffix>>
                           ELSE <<>>)
                     \o (IF a THEN <<SudoWarning>> ELSE <<>>)
                     \o (IF r THEN <<RecursiveWarning>> ELSE <<>>))

\* C8's case: all three warnings are added to a response that already had one
C8_Witness ==
    /\ last.op = "CheckCommand"
    /\ ClassifiedBefore.Warning # <<>>
    /\ Len(dangerousPatterns) > 0
    /\ response.Warning =
         JoinedWarnings(ClassifiedBefore.Warning,
             <<DangerPrefix \o dangerousPatterns[1] \o DangerSuffix,
               SudoWarning, RecursiveWarning>>)

\* the command has none of the configured dangerous patterns, no
\* privilege-escalation marker and no recursive-operation marker
CleanCommand(command, patterns) ==
    /\ \A k \in 1..Len(patterns) : ~ContainsFold(command, patterns[k])
    /\ ~ContainsFold(command, <<"s","u","d","o">>)
    /\ ~(/\ ContainsFold(command, <<"-","r">>)
         /\ \/ ContainsFold(command, <<"r","m">>)
            \/ ContainsFold(command, <<"c","h","m","o","d">>)
            \/ ContainsFold(command, <<"c","h","o","w","n">>))

\* C9: CheckCommand leaves every field of the response unchanged when the command
\* is empty, or when it contains no configured dangerous pattern, no
\* privilege-escalation marker and no recursive-operation marker.
C9_CleanCommandUnchanged ==
    (/\ last.op = "CheckCommand"
     /\ \/ ClassifiedBefore.Command = <<>>
        \/ CleanCommand(ClassifiedBefore.Command, dangerousPatterns))
    => response = ClassifiedBefore

\* C9's case: a clean, non-empty command with a confidence above 0.5 was
\* classified under a non-empty pattern list
C9_Witness ==
    /\ last.op = "CheckCommand"
    /\ ClassifiedBefore.Command # <<>>
    /\ CleanCommand(ClassifiedBefore.Command, dangerousPatterns)
    /\ dangerousPatterns # <<>>
    /\ ClassifiedBefore.Confidence > 50
    /\ response = ClassifiedBefore

-----------------------------------------------------------------------------
(* Properties of the inventory reconciler.                                 *)

\* the part of a model name before its first ':' (the name itself without one)
BeforeTag(name) ==
    IF Index(name, ":") = -1 THEN name ELSE SubSeq(name, 1, Index(name, ":"))

\* the remote record matches the queried name
RemoteMatches(record, name) ==
    record = name \/ Contains(record, BeforeTag(name))

ListedModels ==
    last.models

\* C2: the Downloaded flag that ListAvailableModels computes for a catalog model
\* is true only if both its local marker exists and the service is reachable and
\* reports a model matching it; never when only one of the two holds.
C2_DownloadedNeedsMarkerAndRemote ==
    last.op = "ListAvailableModels" =>
        \A i \in 1..Len(ListedModels) :
            ListedModels[i].Downloaded =>
                /\ ListedModels[i].Name \in markers
                /\ service = "up"
                /\ \E record \in remote : RemoteMatches(record, ListedModels[i].Name)

\* C2's case: one listing holds a downloaded model, a model with a marker and no
\* matching remote record, and a model with a matching remote record and no marker
C2_Witness ==
    /\ last.op = "ListAvailableModels"
    /\ service = "up"
    /\ \E i \in 1..Len(ListedModels) : ListedModels[i].Downloaded
    /\ \E i \in 1..Len(ListedModels) :
        /\ ListedModels[i].Name \in markers
        /\ ~\E record \in remote : RemoteMatches(record, ListedModels[i].Name)
        /\ ~ListedModels[i].Downloaded
    /\ \E i \in 1..Len(ListedModels) :
        /\ ListedModels[i].Name \notin markers
        /\ \E record \in remote : RemoteMatches(record, ListedModels[i].Name)
        /\ ~ListedModels[i].Downloaded

\* C3: after any downloads and out-of-band remote deletions, a catalog model that
\* the remote inventory no longer contains is not downloaded, even when its marker
\* is still present and other catalog models remain in the remote inventory.
C3_RemoteDeletionClearsDownloaded ==
    last.op = "ListAvailableModels" =>
        \A i \in 1..Len(ListedModels) :
            ListedModels[i].Name \notin remote => ~ListedModels[i].Downloaded

\* C4: isModelDownloaded is false for every catalog model and every marker state
\* whenever the availability probe fails or the remote listing fails.
C4_ProbeFailureMeansNotDownloaded ==
    (last.op = "ListAvailableModels" /\ service # "up") =>
        \A i \in 1..Len(ListedModels) : ~ListedModels[i].Downloaded

\* C4's case: the probe succeeds and the listing fails while a model has both its
\* marker and its remote record
C4_Witness ==
    /\ last.op = "ListAvailableModels"
    /\ service = "garbled"
    /\ \E i \in 1..Len(ListedModels) :
        /\ ListedModels[i].Name \in markers
        /\ ListedModels[i].Name \in remote
        /\ ~ListedModels[i].Downloaded

\* C10: when the pull of a DownloadModel call fails, the call returns an error and
\* the set of local markers is unchanged; a marker is created only after PullModel
\* has returned success.
C10_FailedPullLeavesMarkers ==
    last.op = "DownloadModel" =>
        /\ (last.pulled /\ last.pullErr # "nil") =>
               (last.err # "nil" /\ markers = last.markersBefore)
        /\ markers # last.markersBefore => (last.pulled /\ last.pullErr = "nil")

\* C10's case: the pull of a model without a marker was issued and failed on an
\* error record of the stream
C10_Witness ==
    /\ last.op = "DownloadModel"
    /\ last.pulled
    /\ last.pullErr = "ollama error"
    /\ last.modelName \notin markers
    /\ last.err = "failed to download model"

-----------------------------------------------------------------------------
(* Properties of GenerateCommand.                                          *)

\* C5: every CommandResponse that GenerateCommand returns has been classified,
\* under every configuration: a returned command that contains a configured
\* dangerous pattern carries the danger warning and a confidence of at most 0.5.
C5_ReturnedCommandIsClassified ==
    (/\ last.op = "GenerateCommand"
     /\ ~last.panic
     /\ last.err = "nil"
     /\ \E k \in 1..Len(dangerousPatterns) :
            ContainsFold(response.Command, dangerousPatterns[k]))
    => /\ \E k \in 1..Len(dangerousPatterns) :
            Contains(response.Warning,
                     DangerPrefix \o dangerousPatterns[k] \o DangerSuffix)
       /\ response.Confidence <= 50

\* C6: every CommandResponse with a non-empty command that GenerateCommand returns
\* carries a confidence within [0,1], whatever number the reply states.
C6_ConfidenceWithinUnitInterval ==
    (/\ last.op = "GenerateCommand"
     /\ ~last.panic
     /\ last.err = "nil"
     /\ response.Command # <<>>)
    => (0 <= response.Confidence /\ response.Confidence <= 100)

-----------------------------------------------------------------------------
(* Properties of PullModel and DownloadModel.                              *)

\* positions of the items of a stream at which the loop of PullModel stops: an
\* item that is no record, or a record with a non-empty error
Stops(items) ==
    {k \in 1..Len(items) : items[k].kind # "record" \/ items[k].Error # ""}

FirstStop(items) ==
    CHOOSE k \in Stops(items) : \A j \in Stops(items) : k <= j

\* C11: PullModel returns an error at the first record with a non-empty error,
\* having called the progress callback for the records before it only, and for
\* no later record; a stream that ends without such a record and without an
\* undecodable item gives success, with one callback per record.
C11_PullStopsAtFirstError ==
    (last.op = "PullModel" /\ last.pull.kind = "stream") =>
        IF Stops(last.met) = {}
        THEN /\ last.err = "nil"
             /\ Len(last.calls) = Len(last.met)
        ELSE /\ last.err # "nil"
             /\ last.met[FirstStop(last.met)].kind = "record" => last.err = "ollama error"
             /\ Len(last.calls) = FirstStop(last.met) - 1
             /\ \A i \in 1..Len(last.calls) : last.calls[i].status = last.met[i].Status

\* C11's case: an error record follows a progress record and precedes another
C11_Witness ==
    /\ last.op = "PullModel"
    /\ Len(last.met) = 3
    /\ last.met[1] = RecHalf /\ last.met[2] = RecError /\ last.met[3] = RecManifest
    /\ last.err = "ollama error"
    /\ Len(last.calls) = 1

\* the deadline scope of the pull ends while the stream is being read: the read
\* that follows some progress records fails
DeadlineMidStream(pull) ==
    /\ pull # Nil
    /\ pull.kind = "stream"
    /\ Stops(pull.items) # {}
    /\ pull.items[FirstStop(pull.items)] = DeadlineExceeded

\* C12: when the deadline scope of a pull ends while the stream is being read,
\* the pull fails and DownloadModel returns an error, the response body has been
\* closed, no marker is created, and the model is not reported as downloaded in
\* the state the call leaves.
C12_CancelledPullLeavesNothing ==
    (last.op = "DownloadModel" /\ DeadlineMidStream(last.pull)) =>
        /\ last.pullErr # "nil"
        /\ last.err # "nil"
        /\ last.closed
        /\ markers = last.markersBefore
        /\ ~(/\ last.modelName \in markers
             /\ service = "up"
             /\ \E record \in remote : RemoteMatches(record, last.modelName))

\* C12's case: the deadline ends the pull of a model after a progress record
C12_Witness ==
    /\ last.op = "DownloadModel"
    /\ DeadlineMidStream(last.pull)
    /\ FirstStop(last.pull.items) > 1
    /\ last.closed
    /\ last.modelName \notin remote

\* C13: a pull that receives progress records only and ends before the deadline
\* of its context completes successfully, whatever the configured ai.timeout: the
\* time it is allowed does not depend on the generation timeout.
C13_PullTimeIndependentOfTimeout ==
    (/\ last.op = "PullModel"
     /\ last.pull.kind = "stream"
     /\ Stops(last.pull.items) = {}
     /\ (Len(last.pull.items) + 1) * last.gap < PullDeadline)
    => last.err = "nil"

-----------------------------------------------------------------------------
(* Properties of GenerateCommand and Generate: requests and errors.        *)

\* C14: GenerateCommand sends at most one generate request, and sends it exactly
\* when the probe succeeded, a current model was selected and a remote record
\* matched it; otherwise it returns an error and a nil response without a request.
C14_OneRequestAfterChecks ==
    last.op = "GenerateCommand" =>
        /\ last.requests \in {0, 1}
        /\ last.requests = 1 <=>
               /\ service = "up"
               /\ GetCurrentModel # Nil
               /\ \E record \in remote : RemoteMatches(record, GetCurrentModel.Name)
        /\ last.requests = 0 => (last.err # "nil" /\ response = Nil)

\* C14's case: the service is up and holds a model, and it is not the current one
C14_Witness ==
    /\ last.op = "GenerateCommand"
    /\ service = "up"
    /\ remote # {}
    /\ last.requests = 0
    /\ last.err = "model is not available in Ollama"
    /\ response = Nil

\* C15: when the decoded generate reply has a non-empty error field, the call
\* returns an error and no CommandResponse, and neither the interpreter nor the
\* classifier has run, whatever the response text of the reply holds.
C15_ReplyErrorMeansNoResponse ==
    (/\ last.op = "GenerateCommand"
     /\ last.requests = 1
     /\ last.replyKind = "decoded"
     /\ last.replyError # "")
    => /\ last.err # "nil"
       /\ response = Nil
       /\ ~last.interpreted
       /\ ~last.classified

\* C15's case: the reply has an error and a response text with a well-formed
\* command
C15_Witness ==
    /\ last.op = "GenerateCommand"
    /\ last.requests = 1
    /\ last.replyError # ""
    /\ raw = StructuredReply(<<"l","s">>, <<"0",".","9","5">>)
    /\ parseOllamaResponse(raw).resp.Command = <<"l","s">>
    /\ response = Nil

\* C16: when the creation of the local marker fails after a successful pull,
\* DownloadModel returns an error to its caller and does not report success.
\* (The read side, hasLocalMetadata, has no error to return: a marker that cannot
\* be read is a marker that is absent.)
C16_MarkerFailureIsReturned ==
    (/\ last.op = "DownloadModel"
     /\ last.pulled
     /\ last.pullErr = "nil"
     /\ last.fs # "ok")
    => last.err # "nil"

-----------------------------------------------------------------------------
(* Properties of the queries of the registry.                              *)

Least(S) ==
    CHOOSE i \in S : \A j \in S : i <= j

\* positions of the listing that name the configured default, that are
\* downloaded, that are recommended
DefaultPositions(models) ==
    {i \in 1..Len(models) :
        models[i].Name = defaultModel \/ models[i].OllamaName = defaultModel}

DownloadedPositions(models) ==
    {i \in 1..Len(models) : models[i].Downloaded}

RecommendedPositions(models) ==
    {i \in 1..Len(models) : models[i].Recommended}

\* C17: GetCurrentModel returns the first descriptor whose name or remote
\* identifier is the configured default, else the first downloaded descriptor,
\* else the first recommended one, else the first of the catalog, else none; the
\* descriptor is a function of the state, so two calls in one state agree.
C17_CurrentModelPrecedence ==
    last.op = "GetCurrentModel" =>
        last.chosen =
            IF DefaultPositions(last.models) # {}
            THEN last.models[Least(DefaultPositions(last.models))]
            ELSE IF DownloadedPositions(last.models) # {}
            THEN last.models[Least(DownloadedPositions(last.models))]
            ELSE IF RecommendedPositions(last.models) # {}
            THEN last.models[Least(RecommendedPositions(last.models))]
            ELSE IF Len(last.models) > 0 THEN last.models[1]
            ELSE Nil

\* C17's case: the default names no catalog entry and two descriptors are
\* downloaded, the first of the catalog not being one of them
C17_Witness ==
    /\ last.op = "GetCurrentModel"
    /\ DefaultPositions(last.models) = {}
    /\ Cardinality(DownloadedPositions(last.models)) = 2
    /\ 1 \notin DownloadedPositions(last.models)
    /\ last.chosen.Downloaded

\* C18: GetRecommendedModel returns the first descriptor that is recommended and
\* downloaded, else the first recommended one, else the first of the catalog,
\* else none.
C18_RecommendedModelPrecedence ==
    last.op = "GetRecommendedModel" =>
        last.chosen =
            IF RecommendedPositions(last.models) \cap DownloadedPositions(last.models) # {}
            THEN last.models[Least(RecommendedPositions(last.models)
                                   \cap DownloadedPositions(last.models))]
            ELSE IF RecommendedPositions(last.models) # {}
            THEN last.models[Least(RecommendedPositions(last.models))]
            ELSE IF Len(last.models) > 0 THEN last.models[1]
            ELSE Nil

\* C18's case: a descriptor that is not recommended is downloaded, and so is a
\* recommended one that is not the first of the catalog
C18_Witness ==
    /\ last.op = "GetRecommendedModel"
    /\ DownloadedPositions(last.models) \ RecommendedPositions(last.models) # {}
    /\ last.chosen.Downloaded
    /\ last.chosen.Recommended
    /\ last.chosen # last.models[1]

\* C19: with the service reachable and the listing successful,
\* IsModelAvailableInOllama(name) is true exactly when a remote record equals name
\* or contains the part of name before its first ':'; with an empty remote
\* inventory it is false for every name.
C19_AvailabilityMatchingRule ==
    (last.op = "IsModelAvailableInOllama" /\ service = "up") =>
        /\ last.available <=> \E record \in remote : RemoteMatches(record, last.modelName)
        /\ remote = {} => ~last.available

\* C19's case: a name without a tag matches a tagged record that differs from it
C19_Witness ==
    /\ last.op = "IsModelAvailableInOllama"
    /\ service = "up"
    /\ last.modelName = <<"m","i","s","t","r","a","l">>
    /\ last.modelName \notin remote
    /\ last.available

-----------------------------------------------------------------------------
(* Properties of the structured path of the interpreter.                   *)

HasField(object, key) ==
    \E k \in 1..Len(object) : object[k][1] = key

Field(object, key) ==
    object[CHOOSE k \in 1..Len(object) : object[k][1] = key][2]

\* the string value of a member, empty when it is absent or no string
StringField(object, key) ==
    IF HasField(object, key) /\ Field(object, key).t = "string"
    THEN Field(object, key).s ELSE <<>>

\* the numeric value of a member, or the default when absent or no number
NumberField(object, key, default) ==
    IF HasField(object, key) /\ Field(object, key).t = "float64"
    THEN Field(object, key).n ELSE default

\* the string elements of an array member, in their order
StringsOfField(object, key) ==
    IF HasField(object, key) /\ Field(object, key).t = "array"
    THEN LET IsStr(e) == e.t = "string"
             kept == SelectSeq(Field(object, key).a, IsStr)
         IN  [k \in 1..Len(kept) |-> kept[k].s]
    ELSE <<>>

\* C20: when the reply holds the JSON text of an object whose trimmed command or
\* whose warning is not empty, parseOllamaResponse takes the structured path and
\* returns the trimmed command, the explanation and the warning as given (empty
\* when absent or no strings), the confidence given or 0.8, and the string
\* elements of the alternatives in order; it adds no warning of its own.
C20_StructuredFieldsAreExtracted ==
    (/\ last.op = "parseOllamaResponse"
     /\ \/ TrimSpace(StringField(last.object, <<"c","o","m","m","a","n","d">>)) # <<>>
        \/ StringField(last.object, <<"w","a","r","n","i","n","g">>) # <<>>)
    => /\ ~last.out.panic
       /\ last.out.path = "structured"
       /\ last.out.resp.Command = TrimSpace(StringField(last.object, <<"c","o","m","m","a","n","d">>))
       /\ last.out.resp.Explanation = StringField(last.object, <<"e","x","p","l","a","n","a","t","i","o","n">>)
       /\ last.out.resp.Warning = StringField(last.object, <<"w","a","r","n","i","n","g">>)
       /\ last.out.resp.Confidence = NumberField(last.object, <<"c","o","n","f","i","d","e","n","c","e">>, 80)
       /\ last.out.resp.Alternatives = StringsOfField(last.object, <<"a","l","t","e","r","n","a","t","i","v","e","s">>)

\* C20's case: a reply with text around an object whose command has blanks around
\* it and whose alternatives hold a number between two strings
C20_Witness ==
    /\ last.op = "parseOllamaResponse"
    /\ raw[1] = "S"
    /\ last.out.path = "structured"
    /\ last.out.resp.Command = <<"l","s"," ","-","l","a">>
    /\ last.out.resp.Alternatives = << <<"l","l">>, <<"d","i","r">> >>
    /\ last.out.resp.Confidence = 80
    /\ last.out.resp.Warning = <<>>

-----------------------------------------------------------------------------
(* Properties of the fallback path of the interpreter.                     *)

\* C21: every response of the fallback path carries confidence 0.3, the fixed
\* advisory warning, the fixed explanation and no alternatives, whatever the text
\* was and wherever its command comes from.
C21_FallbackFieldsAreFixed ==
    (last.op = "parseOllamaResponse" /\ last.out.path = "fallback") =>
        /\ last.out.resp.Confidence = 30
        /\ last.out.resp.Warning = <<"P","l","e","a","s","e"," ","v","e","r","i","f","y"," ","t","h","i","s"," ","c","o","m","m","a","n","d"," ","b","e","f","o","r","e"," ","e","x","e","c","u","t","i","n","g">>
        /\ last.out.resp.Explanation = FallbackExplanation
        /\ last.out.resp.Alternatives = <<>>

\* C21's case: a reply of three lines none of which gives a command, answered
\* with the placeholder
C21_Witness ==
    /\ last.op = "parseOllamaResponse"
    /\ Len(last.lines) = 3
    /\ last.out.path = "fallback"
    /\ last.out.resp.Command = FallbackCommand
    /\ last.out.resp.Confidence = 30

-----------------------------------------------------------------------------
(* The feedback log. *)

\* the goroutines inside the critical section of an operation on the file:
\* between the Lock and the Unlock of the Manager they called
InOperation ==
    {p \in Procs : callers[p].op # "idle" /\ p \in mu[callers[p].m]}

\* C22: operations on the feedback file are mutually exclusive, also through
\* different Manager values: at most one goroutine is inside SaveFeedback's or
\* LoadFeedback's critical section at a time.
C22_FileOperationsAreExclusive ==
    Cardinality(InOperation) <= 1

\* C29: a call of SaveFeedback never blocks forever: it is never left waiting
\* for the Manager's mutex while holding that mutex itself, a wait that no step
\* of any goroutine ends.
C29_SaveFeedbackNeverBlocksForever ==
    \A p \in Procs :
        (callers[p].op = "SaveFeedback" /\ callers[p].pc = "LoadLock")
            => mu[callers[p].m] # {p}

-----------------------------------------------------------------------------
(* The independence of CheckCommand's three checks. *)

\* the recursive-operation marker with one of the commands it applies to
RecursiveOperation(command) ==
    /\ Contains(command, <<"-","r">>)
    /\ \/ Contains(command, <<"r","m">>)
       \/ Contains(command, <<"c","h","m","o","d">>)
       \/ Contains(command, <<"c","h","o","w","n">>)

\* C26: the administrative-privileges warning is appended exactly when the
\* lower-cased command contains "sudo" and the warning the response came with
\* does not, and the recursive-operation warning exactly when the command has the
\* recursive marker, whatever the dangerous-pattern check did.
C26_ChecksAreIndependent ==
    (last.op = "CheckCommand" /\ ClassifiedBefore.Command # <<>>) =>
        /\ Contains(response.Warning, SudoWarning)
              <=> /\ Contains(ToLower(ClassifiedBefore.Command), <<"s","u","d","o">>)
                  /\ ~Contains(ClassifiedBefore.Warning, <<"s","u","d","o">>)
        /\ Contains(response.Warning, RecursiveWarning)
              <=> RecursiveOperation(ToLower(ClassifiedBefore.Command))

-----------------------------------------------------------------------------
(* The progress callbacks of a pull. *)

\* the records the loop reads and reports: those before the first item at which
\* it stops, or all of them
ReportedRecords(items) ==
    IF Stops(items) = {} THEN items ELSE SubSeq(items, 1, FirstStop(items) - 1)

\* the fraction <<num, den>> is completed/total, and 0 when total is not positive
IsFractionOf(fraction, record) ==
    /\ fraction[2] # 0
    /\ IF record.Total > 0
       THEN fraction[1] * record.Total = record.Completed * fraction[2]
       ELSE fraction[1] = 0

\* C27: the progress callbacks of a pull are, in stream order and one per record,
\* the records read before the first error record or the end of the stream; each
\* carries the record's status and completed/total, which is 0 when total is not
\* positive.
C27_CallbacksFollowTheRecords ==
    (last.op = "PullModel" /\ last.pull.kind = "stream") =>
        LET records == ReportedRecords(last.met)
        IN  /\ Len(last.calls) = Len(records)
            /\ \A i \in 1..Len(records) :
                /\ last.calls[i].status = records[i].Status
                /\ IsFractionOf(last.calls[i].progress, records[i])

\* C27's case: a record without a total and a record half completed are reported
C27_Witness ==
    /\ last.op = "PullModel"
    /\ last.met = <<RecManifest, RecHalf>>
    /\ Len(last.calls) = 2
    /\ last.calls[1].progress[1] = 0
    /\ last.calls[2].progress[1] * 2 = last.calls[2].progress[2]

-----------------------------------------------------------------------------
(* The readiness decisions taken outside isModelDownloaded. *)

\* DownloadModel(modelName) called in this state rejects the model as already
\* downloaded
RejectsAsDownloaded(modelName) ==
    DownloadModel(modelName, [kind |-> "transport", items |-> <<>>], "ok").err
        = "already downloaded"

\* GenerateCommand called in this state passes its three checks and sends the
\* generate request
PassesModelCheck ==
    GenerateCommand(GenerateReply("transport", <<>>, <<>>)).requests = 1

\* C23: in every state, DownloadModel rejects a model as already downloaded only
\* when isModelDownloaded holds for it, and GenerateCommand goes past its model
\* check only when isModelDownloaded holds for the current model.
C23_ReadinessDecisionsAgree ==
    /\ \A modelName \in CatalogNames :
        RejectsAsDownloaded(modelName) => isModelDownloaded(modelName)
    /\ PassesModelCheck => isModelDownloaded(GetCurrentModel.Name)

-----------------------------------------------------------------------------
(* The choice between the structured path and the fallback path. *)

\* the text from the first opening brace to the last closing brace, empty when
\* the last closing brace comes first
EnclosedSpan(text) ==
    SubSeq(text, Index(text, "{") + 1, LastIndex(text, "}") + 1)

\* the cases in which the reply is to be read by the fallback path
FallbackCase(text) ==
    \/ Index(text, "{") = -1
    \/ LastIndex(text, "}") = -1
    \/ Unmarshal(EnclosedSpan(text)).err
    \/ /\ Extract(Unmarshal(EnclosedSpan(text)).m).Command = <<>>
       /\ Extract(Unmarshal(EnclosedSpan(text)).m).Warning = <<>>

\* C24: parseOllamaResponse returns the fallback response exactly when the
\* trimmed text lacks a brace, or the enclosed span does not decode, or the
\* decoded command (trimmed) and warning are both empty; in every other case it
\* returns the structured response, as decoded.
C24_FallbackExactlyWhenUnusable ==
    last.op = "parseOllamaResponse" =>
        LET text == TrimSpace(raw)
        IN  IF FallbackCase(text)
            THEN last.out = Returned(fallbackParseResponse(text), "fallback")
            ELSE last.out = Returned(Extract(Unmarshal(EnclosedSpan(text)).m), "structured")

-----------------------------------------------------------------------------
(* The rules of the fallback path, line by line. *)

\* the text the rules give for a line, empty when the line is blank, a comment,
\* or satisfies no rule: (a) the text after the first "$", without the blanks
\* around it; (b) else the text strictly between the first and the last
\* backquote; (c) else the whole line when it has no whitespace inside
RuleCommand(rawLine) ==
    LET line == TrimSpace(rawLine)
    IN  IF line = <<>> \/ Head(line) = "#" THEN <<>>
        ELSE IF \E i \in 1..Len(line) : line[i] = "$"
        THEN TrimSpace(SubSeq(line, Index(line, "$") + 2, Len(line)))
        ELSE IF \E i \in 1..Len(line) : line[i] = Backtick
        THEN SubSeq(line, Index(line, Backtick) + 2, LastIndex(line, Backtick))
        ELSE IF \A i \in 1..Len(line) : ~IsSpace(line[i])
        THEN line
        ELSE <<>>

\* the positions of the lines that satisfy a rule
SatisfyingLines(lines) ==
    {k \in 1..Len(lines) : RuleCommand(lines[k]) # <<>>}

\* C25: the command of the fallback path is the text the rules give for the first
\* line that satisfies one, whatever the later lines hold; it is the placeholder
\* exactly when no line satisfies a rule; it is never empty.
C25_FirstSatisfyingLineWins ==
    (last.op = "parseOllamaResponse" /\ last.out.path = "fallback") =>
        /\ last.out.resp.Command # <<>>
        /\ IF SatisfyingLines(last.lines) = {}
           THEN last.out.resp.Command = FallbackCommand
           ELSE last.out.resp.Command = RuleCommand(last.lines[Least(SatisfyingLines(last.lines))])

-----------------------------------------------------------------------------
(* The transport calls of DownloadModel and their deadline scopes. *)

\* C28: every transport call is made under a deadline scope of its own: no
\* context of a DownloadModel call is given to two calls.
C28_EveryCallHasItsOwnScope ==
    last.op = "DownloadModel" =>
        \A i \in 1..Len(last.scopes) : Len(last.scopes[i]) = 1

\* the calls of a sequence of scopes, in the order they are made
RECURSIVE CallsOf(_)
CallsOf(scopes) ==
    IF scopes = <<>> THEN <<>> ELSE Head(scopes) \o CallsOf(Tail(scopes))

\* the records of the listing the service gave to the call
RecordsListed ==
    IF service = "up" THEN last.remoteBefore ELSE {}

\* the pull request is the last call, and is made only for a catalog name, after
\* the probe of DownloadModel succeeded and then the listing held no match
PullComesLast ==
    LET calls == CallsOf(last.scopes)
        n     == Len(calls)
    IN  IF last.pulled
        THEN /\ last.modelName \in CatalogNames
             /\ service # "down"
             /\ \A record \in RecordsListed : ~RemoteMatches(record, last.modelName)
             /\ n >= 4
             /\ SubSeq(calls, n - 3, n)
                  = <<"IsAvailable", "IsAvailable", "ListModels", "PullModel">>
             /\ \A i \in 1..(n - 1) : calls[i] # "PullModel"
        ELSE \A i \in 1..n : calls[i] # "PullModel"

\* the three rejections: no pull, and the markers as they were
RejectionsLeaveNoTrace ==
    last.err \in {"unknown model", "ollama service is not available", "already downloaded"}
        => /\ ~last.pulled
           /\ markers = last.markersBefore
           /\ remote = last.remoteBefore

\* C30: DownloadModel issues a pull only after, in this order, the name was found
\* in the catalog, the probe succeeded and no remote record matched; for an
\* unknown name it returns an error without any call to the service; the three
\* rejections issue no pull and leave the markers unchanged.
C30_PullOnlyAfterChecks ==
    last.op = "DownloadModel" =>
        /\ PullComesLast
        /\ RejectionsLeaveNoTrace
        /\ last.modelName \notin CatalogNames =>
               (last.err = "unknown model" /\ last.scopes = <<>>)

\* C30, amended: as above, but for an unknown name the service is still asked,
\* while the listing is built and before the name is looked up, about every
\* catalog model that has a local marker (one probe and, when it succeeds, one
\* listing per marker); DownloadModel makes no probe of its own and no pull.
C30_PullOnlyAfterChecksAndListing ==
    last.op = "DownloadModel" =>
        /\ PullComesLast
        /\ RejectionsLeaveNoTrace
        /\ last.modelName \notin CatalogNames =>
               /\ last.err = "unknown model"
               /\ Len(last.scopes) = Cardinality(last.markersBefore \cap CatalogNames)
               /\ \A i \in 1..Len(last.scopes) :
                    last.scopes[i] = IF service = "down" THEN <<"IsAvailable">>
                                     ELSE <<"IsAvailable", "ListModels">>

\* C30's case: a download of an unknown name while a catalog model has a marker,
\* so that the service was asked before the name was rejected
C30_Witness ==
    /\ last.op = "DownloadModel"
    /\ last.err = "unknown model"
    /\ last.markersBefore # {}
    /\ last.scopes # <<>>

=============================================================================
